---- MODULE Spec2Model ----
(***************************************************************************)
(* Risk & exposure management core of the prediction-market trading        *)
(* assistant: RiskManager (risk_manager.py), the PaperTrader ledger        *)
(* (paper_trader.py) that drives it and the ExitTracker                    *)
(* (alerts/exit_tracker.py) that watches the open trades.                  *)
(*                                                                         *)
(* `notifier` is ExitTracker.notifier (TRUE: a TelegramNotifier, FALSE:    *)
(* None).  `observed` is a history variable: for every trade with an exit  *)
(* target, the prices check_exits has fetched for it since the target was  *)
(* set, each with the trigger types the pass returned for the trade.       *)
(* `issued` is a history variable too: the ids buy() has handed out, in    *)
(* order; a trade's `timestamp` is its position in that order.             *)
(* `inflight` holds the local variables of a check_exits pass and of a     *)
(* set_exit_target call that have read the targets file and not yet        *)
(* written it.  `exchange` is the list of orders RealTrader has posted to  *)
(* the CLOB client (polymarket/real_trader.py).                            *)
(*                                                                         *)
(* Money and prices are Python floats in the source.  The model uses       *)
(* integers (dollars, percentage points) and keeps quotients as            *)
(* numerator/denominator pairs, i.e. the real-number meaning of the float  *)
(* expressions; the input sets are chosen so that every stored quotient    *)
(* (shares, pnl) is an integer.                                            *)
(***************************************************************************)
EXTENDS Integers, Sequences, FiniteSets, TLC

VARIABLES config, positions, trades, targets, today, args, last, notifier, observed, issued, inflight, exchange

vars == <<config, positions, trades, targets, today, args, last, notifier, observed, issued, inflight, exchange>>

\* Python None in an Optional[float] slot: a value no price, amount or P&L takes
None == -999999

\* Python None where a str is expected
NoName == "None"

\* Python None where a dict or a message is expected
Nothing == [none |-> TRUE]

Range(s) == {s[i] : i \in DOMAIN s}

Min(a, b) == IF a < b THEN a ELSE b

Abs(a) == IF a < 0 THEN -a ELSE a

RECURSIVE SumFn(_)
SumFn(f) ==
    IF DOMAIN f = {} THEN 0
    ELSE LET x == CHOOSE x \in DOMAIN f : TRUE
         IN f[x] + SumFn([y \in DOMAIN f \ {x} |-> f[y]])

(***************************************************************************)
(* Python strings.  A str is named by a TLA+ string; Chars gives its       *)
(* characters, so that lower() and the substring test `kw in text` are     *)
(* computed character by character.                                        *)
(***************************************************************************)
Chars ==
    ("gpt-5" :> <<"g", "p", "t", "-", "5">>)
    @@ ("btc-100k" :> <<"b", "t", "c", "-", "1", "0", "0", "k">>)
    @@ ("test-market" :> <<"t", "e", "s", "t", "-", "m", "a", "r", "k", "e", "t">>)
    @@ ("test" :> <<"t", "e", "s", "t">>)
    @@ ("GPT-5 Release" :> <<"G", "P", "T", "-", "5", " ", "R", "e", "l", "e", "a", "s", "e">>)
    @@ ("Bitcoin 100k" :> <<"B", "i", "t", "c", "o", "i", "n", " ", "1", "0", "0", "k">>)
    @@ ("EU AI regulation" :> <<"E", "U", " ", "A", "I", " ", "r", "e", "g", "u", "l", "a", "t", "i", "o", "n">>)
    @@ ("Will EU ban GPT-5 release?" :> <<"W", "i", "l", "l", " ", "E", "U", " ", "b", "a", "n", " ", "G", "P", "T", "-", "5", " ", "r", "e", "l", "e", "a", "s", "e", "?">>)
    @@ ("Will Bitcoin reach 100k?" :> <<"W", "i", "l", "l", " ", "B", "i", "t", "c", "o", "i", "n", " ", "r", "e", "a", "c", "h", " ", "1", "0", "0", "k", "?">>)
    @@ ("safety" :> <<"s", "a", "f", "e", "t", "y">>)
    @@ ("alignment" :> <<"a", "l", "i", "g", "n", "m", "e", "n", "t">>)
    @@ ("existential" :> <<"e", "x", "i", "s", "t", "e", "n", "t", "i", "a", "l">>)
    @@ ("risk" :> <<"r", "i", "s", "k">>)
    @@ ("regulation" :> <<"r", "e", "g", "u", "l", "a", "t", "i", "o", "n">>)
    @@ ("oversight" :> <<"o", "v", "e", "r", "s", "i", "g", "h", "t">>)
    @@ ("gpt" :> <<"g", "p", "t">>)
    @@ ("claude" :> <<"c", "l", "a", "u", "d", "e">>)
    @@ ("gemini" :> <<"g", "e", "m", "i", "n", "i">>)
    @@ ("llama" :> <<"l", "l", "a", "m", "a">>)
    @@ ("model" :> <<"m", "o", "d", "e", "l">>)
    @@ ("benchmark" :> <<"b", "e", "n", "c", "h", "m", "a", "r", "k">>)
    @@ ("capability" :> <<"c", "a", "p", "a", "b", "i", "l", "i", "t", "y">>)
    @@ ("revenue" :> <<"r", "e", "v", "e", "n", "u", "e">>)
    @@ ("valuation" :> <<"v", "a", "l", "u", "a", "t", "i", "o", "n">>)
    @@ ("ipo" :> <<"i", "p", "o">>)
    @@ ("acquisition" :> <<"a", "c", "q", "u", "i", "s", "i", "t", "i", "o", "n">>)
    @@ ("partnership" :> <<"p", "a", "r", "t", "n", "e", "r", "s", "h", "i", "p">>)
    @@ ("deal" :> <<"d", "e", "a", "l">>)
    @@ ("congress" :> <<"c", "o", "n", "g", "r", "e", "s", "s">>)
    @@ ("eu" :> <<"e", "u">>)
    @@ ("law" :> <<"l", "a", "w">>)
    @@ ("ban" :> <<"b", "a", "n">>)
    @@ ("antitrust" :> <<"a", "n", "t", "i", "t", "r", "u", "s", "t">>)
    @@ ("ftc" :> <<"f", "t", "c">>)
    @@ ("release" :> <<"r", "e", "l", "e", "a", "s", "e">>)
    @@ ("launch" :> <<"l", "a", "u", "n", "c", "h">>)
    @@ ("announce" :> <<"a", "n", "n", "o", "u", "n", "c", "e">>)
    @@ ("ship" :> <<"s", "h", "i", "p">>)
    @@ ("available" :> <<"a", "v", "a", "i", "l", "a", "b", "l", "e">>)
    @@ ("api" :> <<"a", "p", "i">>)

UpperToLower ==
    ("A" :> "a") @@ ("B" :> "b") @@ ("C" :> "c") @@ ("D" :> "d") @@ ("E" :> "e")
    @@ ("F" :> "f") @@ ("G" :> "g") @@ ("H" :> "h") @@ ("I" :> "i") @@ ("J" :> "j")
    @@ ("K" :> "k") @@ ("L" :> "l") @@ ("M" :> "m") @@ ("N" :> "n") @@ ("O" :> "o")
    @@ ("P" :> "p") @@ ("Q" :> "q") @@ ("R" :> "r") @@ ("S" :> "s") @@ ("T" :> "t")
    @@ ("U" :> "u") @@ ("V" :> "v") @@ ("W" :> "w") @@ ("X" :> "x") @@ ("Y" :> "y")
    @@ ("Z" :> "z")

\* str.lower() on a character sequence
lower(cs) == [i \in DOMAIN cs |-> IF cs[i] \in DOMAIN UpperToLower THEN UpperToLower[cs[i]] ELSE cs[i]]

\* Python text.startswith(prefix) on character sequences
startswith(text, prefix) ==
    Len(prefix) <= Len(text) /\ SubSeq(text, 1, Len(prefix)) = prefix

\* Python `kw in text` on character sequences
Contains(text, kw) ==
    \E i \in 1..(Len(text) - Len(kw) + 1) : SubSeq(text, i, i + Len(kw) - 1) = kw

NARRATIVE_KEYWORDS ==
    ("ai_safety" :> <<"safety", "alignment", "existential", "risk", "regulation", "oversight">>)
    @@ ("ai_progress" :> <<"gpt", "claude", "gemini", "llama", "model", "benchmark", "capability">>)
    @@ ("ai_business" :> <<"revenue", "valuation", "ipo", "acquisition", "partnership", "deal">>)
    @@ ("ai_regulation" :> <<"regulation", "congress", "eu", "law", "ban", "antitrust", "ftc">>)
    @@ ("ai_release" :> <<"release", "launch", "announce", "ship", "available", "api">>)

\* iteration order of the NARRATIVE_KEYWORDS dict
NarrativeOrder == <<"ai_safety", "ai_progress", "ai_business", "ai_regulation", "ai_release">>

Narratives == Range(NarrativeOrder)

(***************************************************************************)
(* RiskConfig and RiskManager (risk_manager.py)                            *)
(***************************************************************************)
\* RiskConfig() with the dataclass defaults (the fields the checks read);
\* kelly_fraction is in hundredths (0.25)
RiskConfig ==
    [max_position_size |-> 100, max_daily_loss |-> 50, max_open_positions |-> 5,
     asymmetric_risk_threshold |-> 85, max_market_exposure |-> 300,
     max_narrative_exposure |-> 500, max_daily_loss_pct |-> 5, kelly_fraction |-> 25]

\* Position(market_slug, market_title, amount, entry_price, side, narratives)
Position(slug, title, amount, entry_price, side, narratives) ==
    [market_slug |-> slug, market_title |-> title, amount |-> amount,
     entry_price |-> entry_price, side |-> side, narratives |-> narratives]

\* a message string, kept as the facts it is formatted from
Msg(kind, subject, num, den) ==
    [kind |-> kind, subject |-> subject, num |-> num, den |-> den, blocking |-> FALSE]

OK == Msg("OK", "", 0, 1)

\* f"X {msg}" : the blocking prefix full_risk_check puts on a failed check
Block(msg) == [msg EXCEPT !.blocking = TRUE]

add_position(P, position) ==
    [s \in DOMAIN P \cup {position.market_slug} |->
        IF s = position.market_slug THEN position ELSE P[s]]

remove_position(P, market_slug) ==
    [s \in DOMAIN P \ {market_slug} |-> P[s]]

\* mutant: `>=` on the position size
check_trade_limits_ge(cfg, amount, open_positions_count, daily_pnl) ==
    IF amount >= cfg.max_position_size
    THEN [ok |-> FALSE, msg |-> Msg("exceeds max position size", "", amount, 1)]
    ELSE IF open_positions_count >= cfg.max_open_positions
    THEN [ok |-> FALSE, msg |-> Msg("Already at max positions", "", open_positions_count, 1)]
    ELSE IF daily_pnl <= -cfg.max_daily_loss
    THEN [ok |-> FALSE, msg |-> Msg("Daily loss limit reached", "", daily_pnl, 1)]
    ELSE [ok |-> TRUE, msg |-> OK]

check_trade_limits(cfg, amount, open_positions_count, daily_pnl) ==
    IF amount > cfg.max_position_size
    THEN [ok |-> FALSE, msg |-> Msg("exceeds max position size", "", amount, 1)]
    ELSE IF open_positions_count >= cfg.max_open_positions
    THEN [ok |-> FALSE, msg |-> Msg("Already at max positions", "", open_positions_count, 1)]
    ELSE IF daily_pnl <= -cfg.max_daily_loss
    THEN [ok |-> FALSE, msg |-> Msg("Daily loss limit reached", "", daily_pnl, 1)]
    ELSE [ok |-> TRUE, msg |-> OK]

\* mutant: the comparison with the limit is inverted
check_market_exposure_inverted(cfg, P, market_slug, additional_amount) ==
    LET current_exposure == IF market_slug \in DOMAIN P THEN P[market_slug].amount ELSE 0
        new_exposure == current_exposure + additional_amount
    IN IF new_exposure < cfg.max_market_exposure
       THEN [ok |-> FALSE, msg |-> Msg("Market exposure would exceed limit", market_slug, new_exposure, 1)]
       ELSE [ok |-> TRUE, msg |-> OK]

check_market_exposure(cfg, P, market_slug, additional_amount) ==
    LET current_exposure == IF market_slug \in DOMAIN P THEN P[market_slug].amount ELSE 0
        new_exposure == current_exposure + additional_amount
    IN IF new_exposure > cfg.max_market_exposure
       THEN [ok |-> FALSE, msg |-> Msg("Market exposure would exceed limit", market_slug, new_exposure, 1)]
       ELSE [ok |-> TRUE, msg |-> OK]

\* mutant: the text is not lower-cased before matching
detect_narratives_no_lower(text) ==
    LET text_lower == Chars[text]
    IN SelectSeq(NarrativeOrder,
                 LAMBDA narrative :
                     \E k \in DOMAIN NARRATIVE_KEYWORDS[narrative] :
                         Contains(text_lower, Chars[NARRATIVE_KEYWORDS[narrative][k]]))

_detect_narratives(text) ==
    LET text_lower == lower(Chars[text])
    IN SelectSeq(NarrativeOrder,
                 LAMBDA narrative :
                     \E k \in DOMAIN NARRATIVE_KEYWORDS[narrative] :
                         Contains(text_lower, Chars[NARRATIVE_KEYWORDS[narrative][k]]))

\* the strings the model classifies, classified once
Texts ==
    {"gpt-5", "btc-100k", "test-market", "GPT-5 Release", "Bitcoin 100k", "EU AI regulation",
     "Will EU ban GPT-5 release?", "Will Bitcoin reach 100k?"}

Detected == [t \in Texts |-> _detect_narratives(t)]

\* `pos.narratives or self._detect_narratives(pos.market_title)`
NarrativesOf(pos) ==
    IF pos.narratives # <<>> THEN pos.narratives ELSE Detected[pos.market_title]

Occurrences(seq, x) == Cardinality({i \in DOMAIN seq : seq[i] = x})

\* mutant: a position's amount is split between its narratives
calculate_narrative_exposure_split(P) ==
    [n \in UNION {Range(NarrativesOf(P[s])) : s \in DOMAIN P} |->
        SumFn([s \in DOMAIN P |->
                  (P[s].amount * Occurrences(NarrativesOf(P[s]), n)) \div Len(NarrativesOf(P[s]))])]

\* RiskManager._calculate_narrative_exposure: a defaultdict(float) that gets
\* `+= pos.amount` once per entry of the position's narrative list
_calculate_narrative_exposure(P) ==
    [n \in UNION {Range(NarrativesOf(P[s])) : s \in DOMAIN P} |->
        SumFn([s \in DOMAIN P |-> P[s].amount * Occurrences(NarrativesOf(P[s]), n)])]

\* the `for narrative in detected_narratives` loop of check_narrative_exposure:
\* the first narrative whose exposure plus the amount is over the limit, or None
RECURSIVE FirstOver(_, _, _, _)
FirstOver(seq, exposure, amount, limit) ==
    IF seq = <<>> THEN NoName
    ELSE LET current == IF Head(seq) \in DOMAIN exposure THEN exposure[Head(seq)] ELSE 0
         IN IF current + amount > limit THEN Head(seq)
            ELSE FirstOver(Tail(seq), exposure, amount, limit)

check_narrative_exposure(cfg, P, market_title, additional_amount) ==
    LET detected_narratives == Detected[market_title]
        narrative_exposure == _calculate_narrative_exposure(P)
        over == FirstOver(detected_narratives, narrative_exposure, additional_amount,
                          cfg.max_narrative_exposure)
    IN IF detected_narratives = <<>> THEN [ok |-> TRUE, msg |-> OK]
       ELSE IF over # NoName
       THEN [ok |-> FALSE,
             msg |-> Msg("Narrative exposure would exceed limit", over,
                         (IF over \in DOMAIN narrative_exposure THEN narrative_exposure[over] ELSE 0)
                             + additional_amount, 1)]
       ELSE [ok |-> TRUE, msg |-> OK]

get_exposure_summary(P) ==
    [market_exposure |-> [s \in DOMAIN P |-> P[s].amount],
     narrative_exposure |-> _calculate_narrative_exposure(P),
     total_exposure |-> SumFn([s \in DOMAIN P |-> P[s].amount]),
     position_count |-> Cardinality(DOMAIN P)]

\* mutant: `>=` on the threshold, so an entry at exactly 85 is warned about
check_asymmetric_risk_ge(cfg, entry_price) ==
    IF entry_price >= cfg.asymmetric_risk_threshold
    THEN Msg("ASYMMETRIC RISK WARNING", "", (100 - entry_price) * 100, entry_price)
    ELSE Nothing

\* warning text (kept as the upside quotient it prints) or None
check_asymmetric_risk(cfg, entry_price) ==
    IF entry_price > cfg.asymmetric_risk_threshold
    THEN Msg("ASYMMETRIC RISK WARNING", "", (100 - entry_price) * 100, entry_price)
    ELSE Nothing

\* mutant: the loss is abs(daily_pnl), so a profit counts as a loss
check_daily_loss_percentage_abs(cfg, daily_pnl, bankroll) ==
    IF bankroll <= 0 THEN [ok |-> FALSE, msg |-> Msg("Invalid bankroll", "", 0, 1)]
    ELSE LET loss == Abs(daily_pnl)
         IN IF loss * 100 >= cfg.max_daily_loss_pct * bankroll
            THEN [ok |-> FALSE, msg |-> Msg("Daily loss % exceeds limit", "", loss * 100, bankroll)]
            ELSE [ok |-> TRUE, msg |-> OK]

\* loss_pct = abs(min(0, daily_pnl)) / bankroll * 100 is the quotient
\* loss * 100 / bankroll; with bankroll > 0, loss_pct >= limit iff
\* loss * 100 >= limit * bankroll
check_daily_loss_percentage(cfg, daily_pnl, bankroll) ==
    IF bankroll <= 0 THEN [ok |-> FALSE, msg |-> Msg("Invalid bankroll", "", 0, 1)]
    ELSE LET loss == Abs(Min(0, daily_pnl))
         IN IF loss * 100 >= cfg.max_daily_loss_pct * bankroll
            THEN [ok |-> FALSE, msg |-> Msg("Daily loss % exceeds limit", "", loss * 100, bankroll)]
            ELSE [ok |-> TRUE, msg |-> OK]

\* mutant: stop at the first failed check
collect_messages_first_only(r1, r2, r3, r4, warning) ==
    LET failed == SelectSeq(<<r1, r2, r3, r4>>, LAMBDA r : ~r.ok)
        messages == (IF failed # <<>> THEN <<Block(failed[1].msg)>> ELSE <<>>)
                    \o (IF warning # Nothing THEN <<warning>> ELSE <<>>)
        allowed == failed = <<>>
    IN [allowed |-> allowed,
        messages |-> IF allowed /\ messages = <<>>
                     THEN <<Msg("All risk checks passed", "", 0, 1)>> ELSE messages]

\* mutant: the asymmetric-risk warning blocks the trade
collect_messages_warning_blocks(r1, r2, r3, r4, warning) ==
    LET messages == (IF ~r1.ok THEN <<Block(r1.msg)>> ELSE <<>>)
                    \o (IF ~r2.ok THEN <<Block(r2.msg)>> ELSE <<>>)
                    \o (IF ~r3.ok THEN <<Block(r3.msg)>> ELSE <<>>)
                    \o (IF ~r4.ok THEN <<Block(r4.msg)>> ELSE <<>>)
                    \o (IF warning # Nothing THEN <<warning>> ELSE <<>>)
        allowed == r1.ok /\ r2.ok /\ r3.ok /\ r4.ok /\ warning = Nothing
    IN [allowed |-> allowed,
        messages |-> IF allowed /\ messages = <<>>
                     THEN <<Msg("All risk checks passed", "", 0, 1)>> ELSE messages]

\* mutant: the confirmation is appended whenever the trade is allowed
collect_messages_always_passed(r1, r2, r3, r4, warning) ==
    LET messages == (IF ~r1.ok THEN <<Block(r1.msg)>> ELSE <<>>)
                    \o (IF ~r2.ok THEN <<Block(r2.msg)>> ELSE <<>>)
                    \o (IF ~r3.ok THEN <<Block(r3.msg)>> ELSE <<>>)
                    \o (IF ~r4.ok THEN <<Block(r4.msg)>> ELSE <<>>)
                    \o (IF warning # Nothing THEN <<warning>> ELSE <<>>)
        allowed == r1.ok /\ r2.ok /\ r3.ok /\ r4.ok
    IN [allowed |-> allowed,
        messages |-> IF allowed
                     THEN Append(messages, Msg("All risk checks passed", "", 0, 1)) ELSE messages]

\* the body of full_risk_check after each check has returned: `allowed`
\* starts True and is cleared by every failed hard check, whose message is
\* appended with the blocking prefix; the warning is appended when present;
\* the confirmation is appended when allowed and nothing else was
collect_messages(r1, r2, r3, r4, warning) ==
    LET messages == (IF ~r1.ok THEN <<Block(r1.msg)>> ELSE <<>>)
                    \o (IF ~r2.ok THEN <<Block(r2.msg)>> ELSE <<>>)
                    \o (IF ~r3.ok THEN <<Block(r3.msg)>> ELSE <<>>)
                    \o (IF ~r4.ok THEN <<Block(r4.msg)>> ELSE <<>>)
                    \o (IF warning # Nothing THEN <<warning>> ELSE <<>>)
        allowed == r1.ok /\ r2.ok /\ r3.ok /\ r4.ok
    IN [allowed |-> allowed,
        messages |-> IF allowed /\ messages = <<>>
                     THEN <<Msg("All risk checks passed", "", 0, 1)>> ELSE messages]

full_risk_check(cfg, P, market_slug, market_title, amount, entry_price, count, daily_pnl, bankroll) ==
    collect_messages(check_trade_limits(cfg, amount, count, daily_pnl),
                     check_market_exposure(cfg, P, market_slug, amount),
                     check_narrative_exposure(cfg, P, market_title, amount),
                     check_daily_loss_percentage(cfg, daily_pnl, bankroll),
                     check_asymmetric_risk(cfg, entry_price))

(***************************************************************************)
(* PaperTrader (paper_trader.py) with its ExitTracker targets file and the *)
(* market data client                                                      *)
(***************************************************************************)
STARTING_BALANCE == 10000

EmptyDict == [k \in {} |-> Nothing]

\* Python truthiness of an Optional[float]
Truthy(x) == x # None /\ x # 0

\* the `question` the exchange reports for a market
Question == ("gpt-5" :> "GPT-5 Release") @@ ("btc-100k" :> "Bitcoin 100k")

\* what PolymarketClient.get_market_by_slug returns for a listed market whose
\* first outcome trades at `price`; parse_prices(market) is market.prices
Market(slug, price) ==
    [question |-> Question[slug], prices |-> ("Yes" :> price) @@ ("No" :> 100 - price)]

parse_prices(market) == market.prices

\* str.lower() of an outcome name
LowerOutcome(outcome) ==
    CASE outcome = "Yes" -> "yes" [] outcome = "No" -> "no" [] OTHER -> outcome

IsOpen(t) == t.status = "OPEN"

IsDone(t) == t.status \in {"CLOSED", "RESOLVED"}

\* a trade is a dict: Get is t.get(key, default), Update is the assignment of
\* the keys of `upd`, which adds the keys the dict does not have yet
Get(t, key, default) == IF key \in DOMAIN t THEN t[key] ELSE default

Update(t, upd) == upd @@ t

\* sum(t.get("pnl", 0) ...) and sum(t["amount"] ...) over the trades at idx,
\* which are CLOSED or RESOLVED where the pnl is summed
SumPnl(idx) == SumFn([i \in idx |-> trades[i].pnl])

SumAmount(idx) == SumFn([i \in idx |-> trades[i].amount])

\* mutant: the new values are merged into the record the id already has
set_exit_target_merge(T, position_id, take_profit, stop_loss, trailing_stop) ==
    [k \in DOMAIN T \cup {position_id} |->
        IF k = position_id /\ k \in DOMAIN T
        THEN [take_profit |-> IF take_profit = None THEN T[k].take_profit ELSE take_profit,
              stop_loss |-> IF stop_loss = None THEN T[k].stop_loss ELSE stop_loss,
              trailing_stop |-> IF trailing_stop = None THEN T[k].trailing_stop ELSE trailing_stop,
              peak_price |-> T[k].peak_price]
        ELSE IF k = position_id
        THEN [take_profit |-> take_profit, stop_loss |-> stop_loss,
              trailing_stop |-> trailing_stop, peak_price |-> None]
        ELSE T[k]]

\* ExitTracker.set_exit_target: load, replace the record of str(id), save
set_exit_target(T, position_id, take_profit, stop_loss, trailing_stop) ==
    [k \in DOMAIN T \cup {position_id} |->
        IF k = position_id
        THEN [take_profit |-> take_profit, stop_loss |-> stop_loss,
              trailing_stop |-> trailing_stop, peak_price |-> None]
        ELSE T[k]]

\* indices of the list comprehensions of buy(): open_trades, the trades with
\* a realized pnl, and closed_today
open_trades == {i \in DOMAIN trades : IsOpen(trades[i])}

done_trades == {i \in DOMAIN trades : IsDone(trades[i])}

closed_today ==
    {i \in DOMAIN trades : IsDone(trades[i]) /\ Get(trades[i], "closed_at", None) = today}

\* the portfolio state buy() hands to the risk gate; closed_at and resolved_at
\* are kept as the day of the timestamp, `today` is date.today()
open_positions_count == Cardinality(open_trades)

daily_pnl_today == SumPnl(closed_today)

bankroll_now ==
    STARTING_BALANCE + SumPnl(done_trades) - SumAmount(open_trades)

\* the trade dict buy() appends (the keys that are read afterwards); the
\* timestamp is the logical time of the buy: how many ids had been issued, plus 1
new_trade(trade_id, market_slug, question, outcome, entry_price, amount, timestamp) ==
    [id |-> trade_id, market_slug |-> market_slug, question |-> question,
     outcome |-> outcome, entry_price |-> entry_price, amount |-> amount,
     shares |-> (amount * 100) \div entry_price, status |-> "OPEN",
     exit_price |-> None, pnl |-> None, timestamp |-> timestamp]

\* PaperTrader.buy; `market` is what get_market_by_slug returned (a market or None)
Buy(market_slug, outcome, amount, entry_price_arg, market, take_profit, stop_loss, trailing_stop) ==
    LET price_missing == entry_price_arg = None /\ market # Nothing
                         /\ outcome \notin DOMAIN parse_prices(market)
        entry_price == IF entry_price_arg = None THEN parse_prices(market)[outcome]
                       ELSE entry_price_arg
        market_title == IF market # Nothing THEN market.question ELSE market_slug
        risk == full_risk_check(config, positions, market_slug, market_title, amount,
                                entry_price, open_positions_count, daily_pnl_today,
                                bankroll_now)
        trade_id == Len(trades) + 1
        trade == new_trade(trade_id, market_slug, market_title, outcome, entry_price, amount,
                           Len(issued) + 1)
    IN IF market = Nothing /\ ~Truthy(entry_price_arg)
       THEN /\ last' = [op |-> "buy", take_profit |-> take_profit, stop_loss |-> stop_loss,
                        trailing_stop |-> trailing_stop, ret |-> [error |-> "error: Market not found"]]
            /\ UNCHANGED <<config, positions, trades, targets, today, args, notifier, observed, issued, inflight, exchange>>
       ELSE IF price_missing
       THEN /\ last' = [op |-> "buy", take_profit |-> take_profit, stop_loss |-> stop_loss,
                        trailing_stop |-> trailing_stop, ret |-> [error |-> "error: Outcome not found"]]
            /\ UNCHANGED <<config, positions, trades, targets, today, args, notifier, observed, issued, inflight, exchange>>
       ELSE IF ~risk.allowed
       THEN /\ last' = [op |-> "buy", take_profit |-> take_profit, stop_loss |-> stop_loss,
                        trailing_stop |-> trailing_stop, ret |-> [error |-> "error: Trade blocked by risk checks"],
                        risk_messages |-> risk.messages]
            /\ UNCHANGED <<config, positions, trades, targets, today, args, notifier, observed, issued, inflight, exchange>>
       ELSE /\ trades' = Append(trades, trade)
            /\ positions' = add_position(positions,
                                Position(market_slug, market_title, amount, entry_price,
                                         LowerOutcome(outcome), <<>>))
            /\ targets' = IF Truthy(take_profit) \/ Truthy(stop_loss) \/ Truthy(trailing_stop)
                          THEN set_exit_target(targets, trade_id, take_profit, stop_loss,
                                               trailing_stop)
                          ELSE targets
            /\ observed' = IF Truthy(take_profit) \/ Truthy(stop_loss) \/ Truthy(trailing_stop)
                           THEN (trade_id :> <<>>) @@ observed
                           ELSE observed
            /\ issued' = Append(issued, trade_id)
            /\ last' = [op |-> "buy", take_profit |-> take_profit, stop_loss |-> stop_loss,
                        trailing_stop |-> trailing_stop, ret |-> trade]
            /\ UNCHANGED <<config, today, args, notifier, inflight, exchange>>

\* mutant: the sign follows the side, as in ExitTracker.check_exits
close_pnl_by_side(trade, exit_price) ==
    IF trade.outcome = "Yes"
    THEN ((exit_price - trade.entry_price) * trade.shares) \div 100
    ELSE ((trade.entry_price - exit_price) * trade.shares) \div 100

\* the P&L close() records: price_change / 100 * shares, whatever the outcome
close_pnl(trade, exit_price) ==
    ((exit_price - trade.entry_price) * trade.shares) \div 100

\* PaperTrader.close; `market` is what get_market_by_slug returns when no
\* exit price is passed
Close(trade_id, exit_price_arg, market) ==
    LET found == {i \in DOMAIN trades : trades[i].id = trade_id /\ trades[i].status = "OPEN"}
        i == CHOOSE i \in found : \A j \in found : i <= j
        trade == trades[i]
        exit_price == IF exit_price_arg # None THEN exit_price_arg
                      ELSE IF trade.outcome \in DOMAIN parse_prices(market)
                      THEN parse_prices(market)[trade.outcome] ELSE 0
        pnl == close_pnl(trade, exit_price)
        pnl_pct == (pnl * 100) \div trade.amount
    IN IF found = {}
       THEN /\ last' = [op |-> "close", trade_id |-> trade_id, ret |-> [error |-> "error: Open trade not found"]]
            /\ UNCHANGED <<config, positions, trades, targets, today, args, notifier, observed, issued, inflight, exchange>>
       ELSE IF exit_price_arg = None /\ market = Nothing
       THEN /\ last' = [op |-> "close", trade_id |-> trade_id,
                        ret |-> [error |-> "error: Could not fetch current price"]]
            /\ UNCHANGED <<config, positions, trades, targets, today, args, notifier, observed, issued, inflight, exchange>>
       ELSE /\ trades' = [trades EXCEPT ![i] =
                             Update(trade, [status |-> "CLOSED", exit_price |-> exit_price,
                                            pnl |-> pnl, pnl_pct |-> pnl_pct,
                                            closed_at |-> today])]
            /\ positions' = remove_position(positions, trade.market_slug)
            /\ last' = [op |-> "close", trade_id |-> trade_id, ret |-> trades'[i]]
            /\ UNCHANGED <<config, targets, today, args, notifier, observed, issued, inflight, exchange>>

\* PaperTrader.resolve
Resolve(trade_id, won) ==
    LET found == {i \in DOMAIN trades : trades[i].id = trade_id}
        i == CHOOSE i \in found : \A j \in found : i <= j
        trade == trades[i]
        pnl == IF won THEN trade.shares - trade.amount ELSE -trade.amount
        pnl_pct == (pnl * 100) \div trade.amount
    IN IF found = {}
       THEN /\ last' = [op |-> "resolve", trade_id |-> trade_id, ret |-> [error |-> "error: Trade not found"]]
            /\ UNCHANGED <<config, positions, trades, targets, today, args, notifier, observed, issued, inflight, exchange>>
       ELSE /\ trades' = [trades EXCEPT ![i] =
                             Update(trade, [status |-> "RESOLVED", won |-> won,
                                            exit_price |-> IF won THEN 100 ELSE 0,
                                            pnl |-> pnl, pnl_pct |-> pnl_pct,
                                            resolved_at |-> today])]
            /\ last' = [op |-> "resolve", trade_id |-> trade_id, ret |-> trades'[i]]
            /\ UNCHANGED <<config, positions, targets, today, args, notifier, observed, issued, inflight, exchange>>

\* trader.risk_manager.get_exposure_summary()
GetExposureSummary ==
    /\ last' = [op |-> "get_exposure_summary", ret |-> get_exposure_summary(positions)]
    /\ UNCHANGED <<config, positions, trades, targets, today, args, notifier, observed, issued, inflight, exchange>>

\* the calendar date returned by date.today() moves on
MaxDay == 2

NextDay ==
    /\ today < MaxDay
    /\ today' = today + 1
    /\ last' = [op |-> "date.today"]
    /\ UNCHANGED <<config, positions, trades, targets, args, notifier, observed, issued, inflight, exchange>>

(***************************************************************************)
(* RiskManager called directly: `args` holds the arguments the caller      *)
(* passes, each action is one method applied to them                       *)
(***************************************************************************)
CheckTradeLimits ==
    /\ last' = [op |-> "check_trade_limits",
                ret |-> check_trade_limits(config, args.amount, args.open_positions_count,
                                           args.daily_pnl)]
    /\ UNCHANGED <<config, positions, trades, targets, today, args, notifier, observed, issued, inflight, exchange>>

CheckMarketExposure ==
    /\ last' = [op |-> "check_market_exposure",
                ret |-> check_market_exposure(config, positions, args.market_slug, args.amount)]
    /\ UNCHANGED <<config, positions, trades, targets, today, args, notifier, observed, issued, inflight, exchange>>

CheckNarrativeExposure ==
    /\ last' = [op |-> "check_narrative_exposure",
                ret |-> check_narrative_exposure(config, positions, args.market_title,
                                                 args.amount)]
    /\ UNCHANGED <<config, positions, trades, targets, today, args, notifier, observed, issued, inflight, exchange>>

CheckDailyLossPercentage ==
    /\ last' = [op |-> "check_daily_loss_percentage",
                ret |-> check_daily_loss_percentage(config, args.daily_pnl, args.bankroll)]
    /\ UNCHANGED <<config, positions, trades, targets, today, args, notifier, observed, issued, inflight, exchange>>

DetectNarratives ==
    /\ last' = [op |-> "_detect_narratives", ret |-> Detected[args.market_title]]
    /\ UNCHANGED <<config, positions, trades, targets, today, args, notifier, observed, issued, inflight, exchange>>

FullRiskCheck ==
    /\ last' = [op |-> "full_risk_check",
                ret |-> full_risk_check(config, positions, args.market_slug,
                                        args.market_title, args.amount, args.entry_price,
                                        args.open_positions_count, args.daily_pnl,
                                        args.bankroll)]
    /\ UNCHANGED <<config, positions, trades, targets, today, args, notifier, observed, issued, inflight, exchange>>

(***************************************************************************)
(* Inputs                                                                  *)
(***************************************************************************)
Slugs == {"gpt-5", "btc-100k"}

\* positions a caller has handed to add_position
PositionAmounts == {250, 450}

PositionTitles == {"GPT-5 Release", "Bitcoin 100k"}

PositionNarratives == {<<>>, <<"ai_release", "ai_regulation">>}

TrackedPositions ==
    {Position(s, t, a, 45, "yes", n) :
        s \in Slugs, t \in PositionTitles, a \in PositionAmounts, n \in PositionNarratives}

\* the dicts add_position builds: every key is the slug of its position
PositionDicts ==
    {P \in UNION {[D -> TrackedPositions] : D \in SUBSET Slugs} :
        \A s \in DOMAIN P : P[s].market_slug = s}

\* proposals put to the gate: inside, on and just over the size limit
ProposalAmounts == {-50, 50, 100, 101}

ProposalTitles == {"GPT-5 Release", "Bitcoin 100k", "EU AI regulation"}

EntryPrices == {85, 86}

OpenCounts == {4, 5}

\* (daily_pnl, bankroll): at both loss limits, at the percentage limit only,
\* a profit, and a zero and a negative bankroll
PnlAndBankroll == {<<-50, 1000>>, <<-49, 980>>, <<60, 1000>>, <<-10, 0>>, <<60, -100>>}

CallArgs ==
    {[market_slug |-> s, market_title |-> t, amount |-> a, entry_price |-> e,
      open_positions_count |-> c, daily_pnl |-> pb[1], bankroll |-> pb[2]] :
        s \in Slugs, t \in ProposalTitles, a \in ProposalAmounts, e \in EntryPrices,
        c \in OpenCounts, pb \in PnlAndBankroll}

NoArgs == [none |-> TRUE]

\* amounts, prices and outcomes of the paper trades
BuyAmounts == {-50, 50}

LivePrices == {50}

ExitPrices == {0}

\* buy(slug, outcome, amount, entry_price): "Maybe" is an outcome no market has
BuyCalls ==
    {<<s, "Yes", a, e>> : s \in Slugs, a \in BuyAmounts, e \in {None, 50}}
    \cup {<<s, "Maybe", a, None>> : s \in Slugs, a \in BuyAmounts}

MaxTrades == 2

\* a RiskManager some caller has filled, about to be asked about a proposal
InitRM ==
    /\ config = RiskConfig
    /\ positions \in PositionDicts
    /\ trades = <<>>
    /\ targets = EmptyDict
    /\ today = 1
    /\ args \in CallArgs
    /\ last = [op |-> "init"]
    /\ notifier = FALSE
    /\ observed = <<>>
    /\ issued = <<>>
    /\ inflight = Nothing
    /\ exchange = <<>>

NextRM ==
    \/ CheckTradeLimits
    \/ CheckMarketExposure
    \/ CheckNarrativeExposure
    \/ CheckDailyLossPercentage
    \/ DetectNarratives
    \/ GetExposureSummary
    \/ FullRiskCheck

SpecRM == InitRM /\ [][NextRM]_vars

\* PaperTrader() with no trades file
Init ==
    /\ config = RiskConfig
    /\ positions = EmptyDict
    /\ trades = <<>>
    /\ targets = EmptyDict
    /\ today = 1
    /\ args = NoArgs
    /\ last = [op |-> "init"]
    /\ notifier = FALSE
    /\ observed = <<>>
    /\ issued = <<>>
    /\ inflight = Nothing
    /\ exchange = <<>>

Next ==
    \/ \E c \in BuyCalls :
       \E m \in {Nothing} \cup {Market(c[1], p) : p \in LivePrices} :
          /\ Len(trades) < MaxTrades
          /\ Buy(c[1], c[2], c[3], c[4], m, None, None, None)
    \/ \E id \in 1..MaxTrades, x \in ExitPrices \cup {None},
          m \in {Nothing} \cup {Market(s, p) : s \in Slugs, p \in LivePrices} :
          Close(id, x, m)
    \/ \E id \in 1..MaxTrades, won \in BOOLEAN : Resolve(id, won)
    \/ GetExposureSummary
    \/ NextDay

Spec == Init /\ [][Next]_vars

(***************************************************************************)
(* ExitTracker.check_exits (alerts/exit_tracker.py)                        *)
(***************************************************************************)
\* mutant: the two sides swapped
pnl_at_swapped(pos, current) ==
    IF pos.outcome = "Yes"
    THEN ((pos.entry_price - current) * pos.shares) \div 100
    ELSE ((current - pos.entry_price) * pos.shares) \div 100

\* the unrealized P&L check_exits computes for an open trade at the fetched price
pnl_at(pos, current) ==
    IF pos.outcome = "Yes"
    THEN ((current - pos.entry_price) * pos.shares) \div 100
    ELSE ((pos.entry_price - current) * pos.shares) \div 100

\* the peak_price of a target after the trailing-stop update for `current`
new_peak(target, current) ==
    IF target.trailing_stop = None THEN target.peak_price
    ELSE IF target.peak_price = None \/ current > target.peak_price THEN current
    ELSE target.peak_price

\* one dict of the `triggered` list
Event(pos, type, trigger_price, current, pnl) ==
    [position_id |-> pos.id, type |-> type, trigger_price |-> trigger_price,
     current_price |-> current, pnl |-> pnl]

\* the dicts one position appends to `triggered`: trailing stop (against the
\* updated peak), then take profit, then stop loss
position_events(pos, target, current) ==
    LET ts_level == new_peak(target, current) - target.trailing_stop
        pnl == pnl_at(pos, current)
    IN (IF target.trailing_stop # None /\ current <= ts_level
        THEN <<Event(pos, "trailing_stop", ts_level, current, pnl)>> ELSE <<>>)
       \o (IF target.take_profit # None /\ current >= target.take_profit
           THEN <<Event(pos, "take_profit", target.take_profit, current, pnl)>> ELSE <<>>)
       \o (IF target.stop_loss # None /\ current <= target.stop_loss
           THEN <<Event(pos, "stop_loss", target.stop_loss, current, pnl)>> ELSE <<>>)

\* the trades of the loop that get past `continue` and have a target in the
\* dict T that load_targets returned: OPEN (load_positions), price fetched,
\* str(id) in T
checked_with(T, prices) ==
    {i \in open_trades : prices[i] # None /\ trades[i].id \in DOMAIN T}

\* `triggered` as the loop over the open trades i..Len(trades) builds it
RECURSIVE triggered_with(_, _, _)
triggered_with(T, i, prices) ==
    IF i > Len(trades) THEN <<>>
    ELSE (IF i \in checked_with(T, prices)
          THEN position_events(trades[i], T[trades[i].id], prices[i])
          ELSE <<>>)
         \o triggered_with(T, i + 1, prices)

\* updated_targets at save_targets: T with the peak of every checked trade updated
updated_with(T, prices) ==
    [id \in DOMAIN T |->
        IF \E i \in checked_with(T, prices) : trades[i].id = id
        THEN LET i == CHOOSE i \in checked_with(T, prices) : trades[i].id = id
             IN [T[id] EXCEPT !.peak_price = new_peak(T[id], prices[i])]
        ELSE T[id]]

\* the same for a pass that loads and saves the targets file in one step
checked(prices) == checked_with(targets, prices)

triggered_from(i, prices) == triggered_with(targets, i, prices)

updated_targets(prices) == updated_with(targets, prices)

\* the trigger types a list of events holds for one position
TypesFor(events, id) == {e.type : e \in {e \in Range(events) : e.position_id = id}}

\* ExitTracker.check_exits; prices[i] is what get_current_price returns for
\* trade i (a price or None).  Every trigger goes through _send_exit_alert,
\* which returns at once without a notifier and otherwise calls
\* self.notifier.send_message, a method TelegramNotifier does not have: the
\* AttributeError leaves check_exits before save_targets and before the return.
CheckExits(prices) ==
    LET triggered == triggered_from(1, prices)
        raised == notifier /\ triggered # <<>>
        ret == IF raised THEN <<>> ELSE triggered
    IN /\ targets' = IF raised \/ open_trades = {} THEN targets ELSE updated_targets(prices)
       /\ last' = [op |-> "check_exits", prices |-> prices,
                   raised |-> IF raised THEN "AttributeError" ELSE NoName,
                   ret |-> ret]
       /\ observed' = [id \in DOMAIN observed |->
                          IF \E i \in checked(prices) : trades[i].id = id
                          THEN LET i == CHOOSE i \in checked(prices) : trades[i].id = id
                               IN Append(observed[id],
                                         [price |-> prices[i], fired |-> TypesFor(ret, id)])
                          ELSE observed[id]]
       /\ UNCHANGED <<config, positions, trades, today, args, notifier, issued, inflight, exchange>>

(***************************************************************************)
(* A ledger of two admitted trades watched by an ExitTracker               *)
(***************************************************************************)
\* number of prices check_exits fetches for one position
MaxPasses == 4

\* buy("gpt-5", "Yes", 50, entry_price=50): 100 shares; and
\* buy("btc-100k", outcome, 100, entry_price=40): 250 shares
ExitLedgers ==
    {<<new_trade(1, "gpt-5", "GPT-5 Release", "Yes", 50, 50, 1),
       new_trade(2, "btc-100k", "Bitcoin 100k", outcome, 40, 100, 2)>> :
        outcome \in {"Yes", "No"}}

\* the RiskManager positions buy() tracks for a ledger of open trades
RECURSIVE tracked(_)
tracked(ledger) ==
    IF ledger = <<>> THEN EmptyDict
    ELSE LET t == ledger[Len(ledger)]
         IN add_position(tracked(SubSeq(ledger, 1, Len(ledger) - 1)),
                         Position(t.market_slug, t.question, t.amount, t.entry_price,
                                  LowerOutcome(t.outcome), <<>>))

\* (take_profit, stop_loss, trailing_stop) of the first and the second trade
Targets1 == {<<None, None, 5>>, <<84, 85, 5>>}

Targets2 == {<<60, None, 5>>}

\* what get_current_price returns for the market of each trade
Prices1 == {70, 84, 85, 90, None}

Prices2 == {60, None}

\* close(2, exit_price=60)
CloseIds == {2}

ClosePrices == {60}

InitExit ==
    /\ config = RiskConfig
    /\ trades \in ExitLedgers
    /\ positions = tracked(trades)
    /\ \E t1 \in Targets1, t2 \in Targets2 :
          targets = set_exit_target(set_exit_target(EmptyDict, 1, t1[1], t1[2], t1[3]),
                                    2, t2[1], t2[2], t2[3])
    /\ today = 1
    /\ args = NoArgs
    /\ last = [op |-> "init"]
    /\ notifier \in BOOLEAN
    /\ observed = [id \in {1, 2} |-> <<>>]
    /\ issued = <<1, 2>>
    /\ inflight = Nothing
    /\ exchange = <<>>

NextExit ==
    \/ \E p1 \in Prices1, p2 \in Prices2 :
          /\ \A id \in DOMAIN observed : Len(observed[id]) < MaxPasses
          /\ CheckExits(<<IF IsOpen(trades[1]) THEN p1 ELSE None,
                          IF IsOpen(trades[2]) THEN p2 ELSE None>>)
    \/ \E id \in CloseIds, x \in ClosePrices : Close(id, x, Nothing)

SpecExit == InitExit /\ [][NextExit]_vars

(***************************************************************************)
(* RiskManager.calculate_kelly_size.  win_prob and odds are in hundredths  *)
(* (60 is 0.60, 250 is 2.50); a returned float is the quotient num / den   *)
(* in lowest terms, with den > 0.                                          *)
(***************************************************************************)
Sign(a) == IF a < 0 THEN -1 ELSE 1

RECURSIVE GCD(_, _)
GCD(a, b) == IF b = 0 THEN a ELSE GCD(b, a % b)

\* the float num / den, as the fraction in lowest terms
Returned(num, den) ==
    LET g == GCD(Abs(num), den)
    IN [raised |-> NoName, num |-> num \div g, den |-> den \div g]

Raised(exception) == [raised |-> exception, num |-> 0, den |-> 1]

\* b = odds - 1, f = (b * p - q) / b: the division raises when odds is 1.0
calculate_kelly_size(cfg, win_prob, odds, bankroll) ==
    IF win_prob <= 0 \/ win_prob >= 100 THEN Returned(0, 1)
    ELSE LET b == odds - 100
             f_num == (b * win_prob - 100 * (100 - win_prob)) * Sign(b)
             f_den == 100 * Abs(b)
             f_safe_num == f_num * cfg.kelly_fraction
             f_safe_den == f_den * 100
         IN IF b = 0 THEN Raised("ZeroDivisionError")
            ELSE IF f_safe_num <= 0 THEN Returned(0, 1)
            ELSE Returned(bankroll * f_safe_num, f_safe_den)

CalculateKellySize ==
    /\ last' = [op |-> "calculate_kelly_size",
                ret |-> calculate_kelly_size(config, args.win_prob, args.odds, args.bankroll)]
    /\ UNCHANGED <<config, positions, trades, targets, today, args, notifier, observed, issued, inflight, exchange>>

\* win probabilities outside, on the ends of and inside (0, 1); odds below,
\* at and above 1.0; a negative, a zero and a positive bankroll
WinProbs == {-10, 0, 30, 50, 60, 100, 110}

Odds == {50, 100, 150, 200, 250}

Bankrolls == {-1000, 0, 1000}

KellyArgs ==
    {[win_prob |-> p, odds |-> o, bankroll |-> k] : p \in WinProbs, o \in Odds, k \in Bankrolls}

InitKelly ==
    /\ config = RiskConfig
    /\ positions = EmptyDict
    /\ trades = <<>>
    /\ targets = EmptyDict
    /\ today = 1
    /\ args \in KellyArgs
    /\ last = [op |-> "init"]
    /\ notifier = FALSE
    /\ observed = <<>>
    /\ issued = <<>>
    /\ inflight = Nothing
    /\ exchange = <<>>

NextKelly == CalculateKellySize

SpecKelly == InitKelly /\ [][NextKelly]_vars

(***************************************************************************)
(* The ledger with its maintenance command: buys with exit targets, a      *)
(* market the exchange does not list whose slug starts with "test", and    *)
(* cleanup_test_trades                                                     *)
(***************************************************************************)
IsTest(t) == startswith(Chars[Get(t, "market_slug", "")], Chars["test"])

\* for i, t in enumerate(self.trades, 1): t["id"] = i
renumbered(ledger) == [i \in DOMAIN ledger |-> Update(ledger[i], [id |-> i])]

\* PaperTrader.cleanup_test_trades
CleanupTestTrades(dry_run) ==
    LET test_trades == SelectSeq(trades, IsTest)
        real_trades == SelectSeq(trades, LAMBDA t : ~IsTest(t))
        count == Len(test_trades)
        result == [removed |-> 0, remaining |-> Len(real_trades), would_remove |-> count,
                   dry_run |-> dry_run]
    IN IF count = 0 \/ dry_run
       THEN /\ last' = [op |-> "cleanup_test_trades", ret |-> result]
            /\ UNCHANGED <<config, positions, trades, targets, today, args, notifier, observed, issued, inflight, exchange>>
       ELSE /\ trades' = renumbered(real_trades)
            /\ last' = [op |-> "cleanup_test_trades", ret |-> [result EXCEPT !.removed = count]]
            /\ UNCHANGED <<config, positions, targets, today, args, notifier, observed, issued, inflight, exchange>>

\* buy(slug, outcome, amount, entry_price) and what get_market_by_slug
\* returns for the slug: "test-market" is not listed, 101 is over the size limit
LedgerBuys ==
    {<<"test-market", "Yes", 100, e, Nothing>> : e \in {None, 50}}
    \cup {<<"gpt-5", o, a, None, Market("gpt-5", 50)>> : o \in {"Yes", "Maybe"}, a \in {100, 101}}

\* (take_profit, stop_loss, trailing_stop) passed to buy: none, zeros, numbers
LedgerTargets == {<<None, None, None>>, <<0, None, 0>>, <<90, 40, 5>>}

LedgerClosePrices == {50}

NextLedger ==
    \/ \E c \in LedgerBuys, t \in LedgerTargets :
          /\ Len(issued) < MaxTrades
          /\ Buy(c[1], c[2], c[3], c[4], c[5], t[1], t[2], t[3])
    \/ \E id \in 1..MaxTrades, x \in LedgerClosePrices : Close(id, x, Nothing)
    \/ \E id \in 1..MaxTrades, won \in BOOLEAN : Resolve(id, won)
    \/ \E dry_run \in BOOLEAN : CleanupTestTrades(dry_run)

SpecLedger == Init /\ [][NextLedger]_vars

(***************************************************************************)
(* One caller at a time, buying the size limit in one market again and     *)
(* again                                                                   *)
(***************************************************************************)
\* number of buys
MaxBuys == 4

\* buy("gpt-5", "Yes", 100) at a live price of 50
SerialAmounts == {100}

NextSerial ==
    \/ \E amount \in SerialAmounts :
          /\ Len(issued) < MaxBuys
          /\ Buy("gpt-5", "Yes", amount, None, Market("gpt-5", 50), None, None, None)
    \/ \E id \in 1..MaxBuys, x \in LedgerClosePrices : Close(id, x, Nothing)
    \/ \E id \in 1..MaxBuys, won \in BOOLEAN : Resolve(id, won)

SpecSerial == Init /\ [][NextSerial]_vars

(***************************************************************************)
(* A RiskManager whose caller adds and removes positions between queries   *)
(* and holds on to the dict get_positions returned                         *)
(***************************************************************************)
\* mutant: get_positions returns self._positions itself
get_positions_no_copy(P) == [is_tracked_dict |-> TRUE, items |-> P]

\* self._positions.copy(): a new dict with the same items
get_positions(P) == [is_tracked_dict |-> FALSE, items |-> P]

AddPosition(position) ==
    /\ positions' = add_position(positions, position)
    /\ last' = [op |-> "add_position"]
    /\ UNCHANGED <<config, trades, targets, today, args, notifier, observed, issued, inflight, exchange>>

RemovePosition(market_slug) ==
    /\ positions' = remove_position(positions, market_slug)
    /\ last' = [op |-> "remove_position"]
    /\ UNCHANGED <<config, trades, targets, today, args, notifier, observed, issued, inflight, exchange>>

GetPositions ==
    /\ last' = [op |-> "get_positions", ret |-> get_positions(positions)]
    /\ UNCHANGED <<config, positions, trades, targets, today, args, notifier, observed, issued, inflight, exchange>>

\* the caller changes the dict it was handed: d[slug] = position or d.pop(slug, None);
\* the tracked dict changes with it only if it is the same object
MutateReturned(items) ==
    /\ last.op = "get_positions"
    /\ items # last.ret.items
    /\ last' = [op |-> "mutate returned dict", ret |-> [last.ret EXCEPT !.items = items]]
    /\ positions' = IF last.ret.is_tracked_dict THEN items ELSE positions
    /\ UNCHANGED <<config, trades, targets, today, args, notifier, observed, issued, inflight, exchange>>

CheckAsymmetricRisk ==
    /\ last' = [op |-> "check_asymmetric_risk",
                ret |-> check_asymmetric_risk(config, args.entry_price)]
    /\ UNCHANGED <<config, positions, trades, targets, today, args, notifier, observed, issued, inflight, exchange>>

\* the positions the caller adds, and the proposals it asks about
QueryPositions ==
    {Position(s, "GPT-5 Release", a, 45, "yes", n) :
        s \in Slugs, a \in PositionAmounts, n \in PositionNarratives}

QueryArgs ==
    {[market_slug |-> "gpt-5", market_title |-> "GPT-5 Release", amount |-> a,
      entry_price |-> e, open_positions_count |-> 4, daily_pnl |-> 60, bankroll |-> 1000] :
        a \in {50, 101}, e \in EntryPrices}

InitQuery ==
    /\ config = RiskConfig
    /\ positions = EmptyDict
    /\ trades = <<>>
    /\ targets = EmptyDict
    /\ today = 1
    /\ args \in QueryArgs
    /\ last = [op |-> "init"]
    /\ notifier = FALSE
    /\ observed = <<>>
    /\ issued = <<>>
    /\ inflight = Nothing
    /\ exchange = <<>>

NextQuery ==
    \/ \E position \in QueryPositions : AddPosition(position)
    \/ \E market_slug \in Slugs : RemovePosition(market_slug)
    \/ GetPositions
    \/ \E position \in QueryPositions : MutateReturned(add_position(last.ret.items, position))
    \/ \E market_slug \in Slugs : MutateReturned(remove_position(last.ret.items, market_slug))
    \/ GetExposureSummary
    \/ CheckTradeLimits
    \/ CheckMarketExposure
    \/ CheckNarrativeExposure
    \/ CheckAsymmetricRisk
    \/ CheckDailyLossPercentage
    \/ FullRiskCheck

SpecQuery == InitQuery /\ [][NextQuery]_vars

(***************************************************************************)
(* ExitTracker.set_exit_target called on the ledger the tracker watches,   *)
(* first with every call running from load_targets to save_targets alone,  *)
(* then with the load and the save of a call and of a check_exits pass as  *)
(* separate steps of two processes that share the targets file             *)
(***************************************************************************)
\* what a set_exit_target call leaves in `last`: its arguments and the record
\* the assignment targets[str(position_id)] = {...} overwrote, if any
SetResult(T, position_id, take_profit, stop_loss, trailing_stop) ==
    [op |-> "set_exit_target", position_id |-> position_id, take_profit |-> take_profit,
     stop_loss |-> stop_loss, trailing_stop |-> trailing_stop,
     replaced |-> IF position_id \in DOMAIN T THEN T[position_id] ELSE Nothing]

SetExitTarget(position_id, take_profit, stop_loss, trailing_stop) ==
    /\ targets' = set_exit_target(targets, position_id, take_profit, stop_loss, trailing_stop)
    /\ observed' = (position_id :> <<>>) @@ observed
    /\ last' = SetResult(targets, position_id, take_profit, stop_loss, trailing_stop)
    /\ UNCHANGED <<config, positions, trades, today, args, notifier, issued, inflight, exchange>>

\* buy("gpt-5", "Yes", 50, entry_price=50) and buy("btc-100k", "Yes", 100, entry_price=40)
TargetLedger ==
    <<new_trade(1, "gpt-5", "GPT-5 Release", "Yes", 50, 50, 1),
      new_trade(2, "btc-100k", "Bitcoin 100k", "Yes", 40, 100, 2)>>

TargetIds == {1, 2}

\* (take_profit, stop_loss, trailing_stop) of a call
TargetArgs == {<<95, None, 5>>, <<None, 30, None>>}

\* what get_current_price returns for the two markets
TargetPrices1 == {70, 90}

TargetPrices2 == {60}

InitTarget ==
    /\ config = RiskConfig
    /\ trades = TargetLedger
    /\ positions = tracked(trades)
    /\ targets = EmptyDict
    /\ today = 1
    /\ args = NoArgs
    /\ last = [op |-> "init"]
    /\ notifier = FALSE
    /\ observed = <<>>
    /\ issued = <<1, 2>>
    /\ inflight = Nothing
    /\ exchange = <<>>

NextTarget ==
    \/ \E id \in TargetIds, t \in TargetArgs : SetExitTarget(id, t[1], t[2], t[3])
    \/ \E p1 \in TargetPrices1, p2 \in TargetPrices2 :
          /\ \A id \in DOMAIN observed : Len(observed[id]) < MaxPasses
          /\ CheckExits(<<p1, p2>>)

SpecTarget == InitTarget /\ [][NextTarget]_vars

\* number of prices a pass fetches for one target while calls interleave
MaxRacePasses == 2

\* no call in progress in either process
Idle == [check_exits |-> Nothing, set_exit_target |-> Nothing]

\* check_exits up to `updated_targets = targets.copy()`: the pass returns at
\* once when there is no open position, otherwise it holds the loaded dict
\* while it fetches the prices
CheckExitsLoad(prices) ==
    /\ inflight.check_exits = Nothing
    /\ IF open_trades = {}
       THEN /\ last' = [op |-> "check_exits", prices |-> prices, raised |-> NoName, ret |-> <<>>]
            /\ UNCHANGED inflight
       ELSE /\ inflight' = [inflight EXCEPT !.check_exits = [targets |-> targets, prices |-> prices]]
            /\ last' = [op |-> "check_exits: load_targets"]
    /\ UNCHANGED <<config, positions, trades, targets, today, args, notifier, observed, issued, exchange>>

\* the rest of check_exits: the loop over the positions and save_targets
CheckExitsSave ==
    /\ inflight.check_exits # Nothing
    /\ LET T == inflight.check_exits.targets
           prices == inflight.check_exits.prices
           triggered == triggered_with(T, 1, prices)
           raised == notifier /\ triggered # <<>>
           ret == IF raised THEN <<>> ELSE triggered
       IN /\ targets' = IF raised THEN targets ELSE updated_with(T, prices)
          /\ last' = [op |-> "check_exits", prices |-> prices,
                      raised |-> IF raised THEN "AttributeError" ELSE NoName, ret |-> ret]
          /\ observed' = [id \in DOMAIN observed |->
                             IF \E i \in checked_with(T, prices) : trades[i].id = id
                             THEN LET i == CHOOSE i \in checked_with(T, prices) : trades[i].id = id
                                  IN Append(observed[id],
                                            [price |-> prices[i], fired |-> TypesFor(ret, id)])
                             ELSE observed[id]]
    /\ inflight' = [inflight EXCEPT !.check_exits = Nothing]
    /\ UNCHANGED <<config, positions, trades, today, args, notifier, issued, exchange>>

\* set_exit_target up to `targets = self.load_targets()`
SetTargetLoad(position_id, take_profit, stop_loss, trailing_stop) ==
    /\ inflight.set_exit_target = Nothing
    /\ inflight' = [inflight EXCEPT !.set_exit_target =
                       [targets |-> targets, position_id |-> position_id,
                        take_profit |-> take_profit, stop_loss |-> stop_loss,
                        trailing_stop |-> trailing_stop]]
    /\ last' = [op |-> "set_exit_target: load_targets"]
    /\ UNCHANGED <<config, positions, trades, targets, today, args, notifier, observed, issued, exchange>>

\* the rest of set_exit_target: the assignment and save_targets
SetTargetSave ==
    /\ inflight.set_exit_target # Nothing
    /\ LET c == inflight.set_exit_target
       IN /\ targets' = set_exit_target(c.targets, c.position_id, c.take_profit, c.stop_loss,
                                     c.trailing_stop)
          /\ observed' = (c.position_id :> <<>>) @@ observed
          /\ last' = SetResult(c.targets, c.position_id, c.take_profit, c.stop_loss,
                               c.trailing_stop)
    /\ inflight' = [inflight EXCEPT !.set_exit_target = Nothing]
    /\ UNCHANGED <<config, positions, trades, today, args, notifier, issued, exchange>>

\* the polling loop (exit_tracker.py --watch) with or without a notifier
InitRace ==
    /\ config = RiskConfig
    /\ trades = TargetLedger
    /\ positions = tracked(trades)
    /\ targets = EmptyDict
    /\ today = 1
    /\ args = NoArgs
    /\ last = [op |-> "init"]
    /\ notifier \in BOOLEAN
    /\ observed = <<>>
    /\ issued = <<1, 2>>
    /\ inflight = Idle
    /\ exchange = <<>>

NextRace ==
    \/ \E p1 \in TargetPrices1, p2 \in TargetPrices2 :
          /\ \A id \in DOMAIN observed : Len(observed[id]) < MaxRacePasses
          /\ CheckExitsLoad(<<p1, p2>>)
    \/ CheckExitsSave
    \/ \E id \in TargetIds, t \in TargetArgs : SetTargetLoad(id, t[1], t[2], t[3])
    \/ SetTargetSave

SpecRace == InitRace /\ [][NextRace]_vars

(***************************************************************************)
(* RealTrader (polymarket/real_trader.py).  `config` is its TradingConfig, *)
(* `trades` its trade history self._trades, `exchange` the orders handed   *)
(* to client.post_order; `args` holds the dry_run flag it was built with   *)
(* and the POLYMARKET_PRIVATE_KEY of the environment ("" when not set).    *)
(* Prices of limit orders are in cents.                                    *)
(***************************************************************************)
TradingConfig(enabled) ==
    [max_position_size |-> 100, max_daily_loss |-> 50, max_open_positions |-> 5,
     min_confidence |-> 70, enabled |-> enabled]

is_trading_enabled(cfg, private_key) ==
    IF ~cfg.enabled THEN FALSE ELSE IF private_key = "" THEN FALSE ELSE TRUE

\* RealTrader.check_risk_limits: (allowed, reason)
check_risk_limits(cfg, T, amount, day) ==
    LET open_positions == Cardinality({i \in DOMAIN T : Get(T[i], "status", NoName) = "open"})
        closed == {i \in DOMAIN T : Get(T[i], "closed_at", None) = day}
        today_pnl == SumFn([i \in closed |-> Get(T[i], "realized_pnl", 0)])
    IN IF amount > cfg.max_position_size
       THEN [allowed |-> FALSE, reason |-> "exceeds max position size"]
       ELSE IF open_positions >= cfg.max_open_positions
       THEN [allowed |-> FALSE, reason |-> "Already at max positions"]
       ELSE IF today_pnl <= -cfg.max_daily_loss
       THEN [allowed |-> FALSE, reason |-> "Daily loss limit reached"]
       ELSE [allowed |-> TRUE, reason |-> "OK"]

\* mutant: the dry-run return comes before the is_trading_enabled test
order_gate_dry_run_first(cfg, T, dry_run, private_key, amount, day) ==
    LET risk == check_risk_limits(cfg, T, amount, day)
    IN IF ~risk.allowed THEN [success |-> FALSE, error |-> risk.reason]
       ELSE IF dry_run THEN [success |-> TRUE, dry_run |-> TRUE, order |-> Nothing]
       ELSE IF ~is_trading_enabled(cfg, private_key)
       THEN [success |-> FALSE, error |-> "Trading not enabled"]
       ELSE Nothing

\* the three early returns place_market_order and place_limit_order share:
\* risk limits, then trading enabled, then dry run; Nothing when the order
\* goes on to the client
order_gate(cfg, T, dry_run, private_key, amount, day) ==
    LET risk == check_risk_limits(cfg, T, amount, day)
    IN IF ~risk.allowed THEN [success |-> FALSE, error |-> risk.reason]
       ELSE IF ~is_trading_enabled(cfg, private_key)
       THEN [success |-> FALSE, error |-> "Trading not enabled"]
       ELSE IF dry_run THEN [success |-> TRUE, dry_run |-> TRUE, order |-> Nothing]
       ELSE Nothing

\* the try block: `answer` is what the client does with the order: "raises"
\* in create_market_order / create_order before anything is posted,
\* "rejected" when post_order raises, else the response post_order returns
PlaceOrder(op, amount, order, trade, answer) ==
    LET early == order_gate(config, trades, args.dry_run, args.private_key, amount, today)
    IN /\ IF early # Nothing
          THEN /\ last' = [op |-> op, amount |-> amount, ret |-> early]
               /\ UNCHANGED <<trades, exchange>>
          ELSE IF answer = "raises"
          THEN /\ last' = [op |-> op, amount |-> amount,
                           ret |-> [success |-> FALSE, error |-> "create order failed"]]
               /\ UNCHANGED <<trades, exchange>>
          ELSE IF answer = "rejected"
          THEN /\ exchange' = Append(exchange, order)
               /\ last' = [op |-> op, amount |-> amount,
                           ret |-> [success |-> FALSE, error |-> "post order failed"]]
               /\ UNCHANGED trades
          ELSE /\ exchange' = Append(exchange, order)
               /\ trades' = Append(trades, Update(trade, [order_response |-> answer]))
               /\ last' = [op |-> op, amount |-> amount,
                           ret |-> [success |-> TRUE, trade |-> trades'[Len(trades')],
                                    response |-> answer]]
       /\ UNCHANGED <<config, positions, targets, today, args, notifier, observed, issued, inflight>>

\* RealTrader.place_market_order: a fill-or-kill order for `amount` dollars
PlaceMarketOrder(token_id, side, amount, answer) ==
    PlaceOrder("place_market_order", amount,
               [token_id |-> token_id, amount |-> amount, side |-> side, order_type |-> "FOK"],
               [id |-> Len(trades) + 1, token_id |-> token_id, side |-> side,
                amount |-> amount, status |-> "open"],
               answer)

\* RealTrader.place_limit_order: a good-til-cancelled order, amount = price * size
PlaceLimitOrder(token_id, side, price, size, answer) ==
    PlaceOrder("place_limit_order", (price * size) \div 100,
               [token_id |-> token_id, price |-> price, size |-> size, side |-> side,
                order_type |-> "GTC"],
               [id |-> Len(trades) + 1, token_id |-> token_id, side |-> side,
                type |-> "limit", price |-> price, size |-> size, status |-> "pending"],
               answer)

\* orders the client is handed
MaxOrders == 3

Tokens == {"0xtest"}

Sides == {"BUY", "SELL"}

\* dollars of a market order: inside and over max_position_size
OrderAmounts == {10, 150}

\* (price in cents, size) of a limit order: 10 dollars and 150 dollars
LimitOrders == {<<50, 20>>, <<50, 300>>}

Answers == {"raises", "rejected", "matched"}

\* RealTrader(dry_run) with or without a config file that enables trading and
\* with or without a private key in the environment
InitReal ==
    /\ config \in {TradingConfig(enabled) : enabled \in BOOLEAN}
    /\ positions = EmptyDict
    /\ trades = <<>>
    /\ targets = EmptyDict
    /\ today = 1
    /\ args \in {[dry_run |-> d, private_key |-> k] : d \in BOOLEAN, k \in {"", "0xtest123"}}
    /\ last = [op |-> "init"]
    /\ notifier = FALSE
    /\ observed = <<>>
    /\ issued = <<>>
    /\ inflight = Nothing
    /\ exchange = <<>>

NextReal ==
    \/ \E token_id \in Tokens, side \in Sides, amount \in OrderAmounts, answer \in Answers :
          /\ Len(exchange) < MaxOrders
          /\ PlaceMarketOrder(token_id, side, amount, answer)
    \/ \E token_id \in Tokens, side \in Sides, o \in LimitOrders, answer \in Answers :
          /\ Len(exchange) < MaxOrders
          /\ PlaceLimitOrder(token_id, side, o[1], o[2], answer)

SpecReal == InitReal /\ [][NextReal]_vars

(***************************************************************************)
(* The conditions of the risk gate, stated on the arguments of the call    *)
(* and the tracked positions                                               *)
(***************************************************************************)
\* bounds of the amounts probed above a denied amount
MaxProbes == 10

ProbeStep == 50

Larger(A) == {A + 1} \cup {A + ProbeStep * k : k \in 1..MaxProbes}

Max(a, b) == IF a > b THEN a ELSE b

LowerChar(c) == IF c \in DOMAIN UpperToLower THEN UpperToLower[c] ELSE c

\* kw occurs in the lower-cased text, starting after `off` characters
OccursAt(text, kw, off) == \A j \in 1..Len(kw) : LowerChar(text[off + j]) = kw[j]

HasKeyword(text, narrative) ==
    \E k \in DOMAIN NARRATIVE_KEYWORDS[narrative] :
        LET kw == Chars[NARRATIVE_KEYWORDS[narrative][k]]
        IN \E off \in 0..(Len(Chars[text]) - Len(kw)) : OccursAt(Chars[text], kw, off)

ExpectedNarratives == [t \in Texts |-> {n \in Narratives : HasKeyword(t, n)}]

NarrativeSetOf(pos) ==
    IF pos.narratives # <<>> THEN Range(pos.narratives)
    ELSE ExpectedNarratives[pos.market_title]

Exposure(m) == IF m \in DOMAIN positions THEN positions[m].amount ELSE 0

NarrativeTotal(n) ==
    SumFn([s \in {s \in DOMAIN positions : n \in NarrativeSetOf(positions[s])} |->
              positions[s].amount])

TotalTracked == SumFn([s \in DOMAIN positions |-> positions[s].amount])

SizeFails == args.amount > config.max_position_size

CountFails == args.open_positions_count >= config.max_open_positions

DollarLossFails == args.daily_pnl <= -config.max_daily_loss

MarketFails == Exposure(args.market_slug) + args.amount > config.max_market_exposure

NarrativeOver(n) ==
    /\ n \in ExpectedNarratives[args.market_title]
    /\ NarrativeTotal(n) + args.amount > config.max_narrative_exposure

NarrativeFails == \E n \in Narratives : NarrativeOver(n)

BankrollInvalid == args.bankroll <= 0

LossPctFails ==
    /\ args.bankroll > 0
    /\ Max(0, -args.daily_pnl) * 100 >= config.max_daily_loss_pct * args.bankroll

Blocking(messages) == SelectSeq(messages, LAMBDA m : m.blocking)

KindAndSubject(messages) ==
    [i \in DOMAIN messages |-> <<messages[i].kind, messages[i].subject>>]

IsFullRiskCheck == last.op = "full_risk_check"

\* the first narrative, in classifier order, that the proposal would push over
FirstNarrativeOver ==
    NarrativeOrder[CHOOSE i \in DOMAIN NarrativeOrder :
                      /\ NarrativeOver(NarrativeOrder[i])
                      /\ \A j \in 1..(i - 1) : ~NarrativeOver(NarrativeOrder[j])]

(***************************************************************************)
(* C1 (as stated): full_risk_check returns a blocking message for every    *)
(* hard condition that fails: position size, open-position count, daily    *)
(* dollar loss, market exposure, every over-limit narrative, daily-loss     *)
(* percentage.                                                             *)
(***************************************************************************)
C1_EveryFailingConditionReported ==
    IsFullRiskCheck =>
        LET B == Range(Blocking(last.ret.messages))
        IN /\ SizeFails => \E m \in B : m.kind = "exceeds max position size"
           /\ CountFails => \E m \in B : m.kind = "Already at max positions"
           /\ DollarLossFails => \E m \in B : m.kind = "Daily loss limit reached"
           /\ MarketFails =>
                 \E m \in B : m.kind = "Market exposure would exceed limit"
                              /\ m.subject = args.market_slug
           /\ \A n \in Narratives :
                 NarrativeOver(n) =>
                     \E m \in B : m.kind = "Narrative exposure would exceed limit"
                                  /\ m.subject = n
           /\ (BankrollInvalid \/ LossPctFails) =>
                 \E m \in B : m.kind \in {"Invalid bankroll", "Daily loss % exceeds limit"}

(***************************************************************************)
(* C1 (amended): full_risk_check returns exactly one blocking message for  *)
(* each of the four hard checks that fails, in the order basic limits,     *)
(* market exposure, narrative exposure, daily-loss percentage, and not     *)
(* only for the first failing check; the basic-limits message names the    *)
(* first failing condition in the order size, open-position count, daily   *)
(* dollar loss, and the narrative message names the first over-limit       *)
(* narrative in classifier order.                                          *)
(***************************************************************************)
C1_OneMessagePerFailingCheck ==
    IsFullRiskCheck =>
        KindAndSubject(Blocking(last.ret.messages)) =
            (IF SizeFails THEN << <<"exceeds max position size", "">> >>
             ELSE IF CountFails THEN << <<"Already at max positions", "">> >>
             ELSE IF DollarLossFails THEN << <<"Daily loss limit reached", "">> >>
             ELSE <<>>)
            \o (IF MarketFails
                THEN << <<"Market exposure would exceed limit", args.market_slug>> >>
                ELSE <<>>)
            \o (IF NarrativeFails
                THEN << <<"Narrative exposure would exceed limit", FirstNarrativeOver>> >>
                ELSE <<>>)
            \o (IF BankrollInvalid THEN << <<"Invalid bankroll", "">> >>
                ELSE IF LossPctFails THEN << <<"Daily loss % exceeds limit", "">> >>
                ELSE <<>>)

\* a proposal over the size limit with the position count at its limit, and
\* over the market, narrative and percentage limits as well: four messages
C1_Witness ==
    /\ IsFullRiskCheck
    /\ SizeFails /\ CountFails /\ MarketFails /\ NarrativeFails /\ LossPctFails
    /\ Len(Blocking(last.ret.messages)) = 4

(***************************************************************************)
(* C2: full_risk_check allows the trade if and only if the basic limits,   *)
(* the market exposure, the narrative exposure and the daily-loss          *)
(* percentage all pass; the decision is the same for every entry price,    *)
(* with or without the asymmetric-risk warning.                            *)
(***************************************************************************)
C2_AllowedIffFourHardChecksPass ==
    IsFullRiskCheck =>
        /\ last.ret.allowed <=>
              /\ ~(SizeFails \/ CountFails \/ DollarLossFails)
              /\ ~MarketFails
              /\ ~NarrativeFails
              /\ ~(BankrollInvalid \/ LossPctFails)
        /\ \A e \in EntryPrices \cup {0, 100} :
              full_risk_check(config, positions, args.market_slug, args.market_title,
                              args.amount, e, args.open_positions_count, args.daily_pnl,
                              args.bankroll).allowed = last.ret.allowed

\* an allowed trade that carries the asymmetric-risk warning
C2_Witness ==
    /\ IsFullRiskCheck
    /\ last.ret.allowed
    /\ \E i \in DOMAIN last.ret.messages :
          last.ret.messages[i].kind = "ASYMMETRIC RISK WARNING"

(***************************************************************************)
(* C5: the comparisons keep their boundaries: an amount equal to           *)
(* max_position_size passes and a greater one is denied; a market or       *)
(* narrative exposure that the amount brings exactly to its limit passes   *)
(* and one over it is denied; an open-position count equal to              *)
(* max_open_positions is denied; a daily loss percentage equal to          *)
(* max_daily_loss_pct is denied.                                           *)
(***************************************************************************)
C5_BoundaryComparisons ==
    /\ last.op = "check_trade_limits" =>
          /\ (args.amount = config.max_position_size /\ ~CountFails /\ ~DollarLossFails)
                => last.ret.ok
          /\ args.amount > config.max_position_size => ~last.ret.ok
          /\ args.open_positions_count = config.max_open_positions => ~last.ret.ok
    /\ last.op = "check_market_exposure" =>
          (last.ret.ok <=>
              Exposure(args.market_slug) + args.amount <= config.max_market_exposure)
    /\ last.op = "check_narrative_exposure" =>
          (last.ret.ok <=>
              \A n \in ExpectedNarratives[args.market_title] :
                  NarrativeTotal(n) + args.amount <= config.max_narrative_exposure)
    /\ last.op = "check_daily_loss_percentage" =>
          ((args.bankroll > 0
            /\ Max(0, -args.daily_pnl) * 100 = config.max_daily_loss_pct * args.bankroll)
              => ~last.ret.ok)

\* a proposal of exactly max_position_size passes check_trade_limits
C5_Witness ==
    /\ last.op = "check_trade_limits"
    /\ args.amount = config.max_position_size
    /\ last.ret.ok

(***************************************************************************)
(* C6: admission is monotone in the amount: when full_risk_check, or one   *)
(* of the hard checks alone, denies an amount, it denies every larger      *)
(* amount with everything else unchanged.                                  *)
(***************************************************************************)
C6_AdmissionMonotoneInAmount ==
    /\ (IsFullRiskCheck /\ ~last.ret.allowed) =>
          \A A \in Larger(args.amount) :
              ~full_risk_check(config, positions, args.market_slug, args.market_title, A,
                               args.entry_price, args.open_positions_count, args.daily_pnl,
                               args.bankroll).allowed
    /\ (last.op = "check_trade_limits" /\ ~last.ret.ok) =>
          \A A \in Larger(args.amount) :
              ~check_trade_limits(config, A, args.open_positions_count, args.daily_pnl).ok
    /\ (last.op = "check_market_exposure" /\ ~last.ret.ok) =>
          \A A \in Larger(args.amount) :
              ~check_market_exposure(config, positions, args.market_slug, A).ok
    /\ (last.op = "check_narrative_exposure" /\ ~last.ret.ok) =>
          \A A \in Larger(args.amount) :
              ~check_narrative_exposure(config, positions, args.market_title, A).ok

\* a proposal inside the size limit that the market exposure check denies
C6_Witness ==
    /\ last.op = "check_market_exposure"
    /\ ~last.ret.ok
    /\ args.amount <= config.max_position_size

(***************************************************************************)
(* C8: _detect_narratives returns exactly the narratives that have a       *)
(* keyword occurring in the lower-cased text, each once; a proposal whose  *)
(* title matches no narrative passes check_narrative_exposure whatever     *)
(* positions are tracked.                                                  *)
(***************************************************************************)
C8_DetectNarrativesIsKeywordOr ==
    /\ last.op = "_detect_narratives" =>
          /\ Range(last.ret) = ExpectedNarratives[args.market_title]
          /\ Len(last.ret) = Cardinality(Range(last.ret))
    /\ (last.op = "check_narrative_exposure" /\ ExpectedNarratives[args.market_title] = {})
          => last.ret.ok
    /\ {"ai_regulation", "ai_release"} \subseteq Range(Detected["Will EU ban GPT-5 release?"])
    /\ Detected["Will Bitcoin reach 100k?"] = <<>>

\* a title classified into several narratives
C8_Witness ==
    /\ last.op = "_detect_narratives"
    /\ Len(last.ret) >= 2

(***************************************************************************)
(* C9: check_daily_loss_percentage denies with "Invalid bankroll" whenever *)
(* bankroll <= 0, whatever daily_pnl is; for bankroll > 0 it denies, with  *)
(* the percentage message, exactly when                                    *)
(* max(0, -daily_pnl) / bankroll * 100 >= max_daily_loss_pct, so that a    *)
(* non-negative daily_pnl passes when max_daily_loss_pct > 0.              *)
(***************************************************************************)
C9_DailyLossPercentage ==
    last.op = "check_daily_loss_percentage" =>
        /\ args.bankroll <= 0 =>
              (~last.ret.ok /\ last.ret.msg.kind = "Invalid bankroll")
        /\ args.bankroll > 0 =>
              /\ ~last.ret.ok <=>
                    Max(0, -args.daily_pnl) * 100 >= config.max_daily_loss_pct * args.bankroll
              /\ ~last.ret.ok => last.ret.msg.kind = "Daily loss % exceeds limit"
        /\ (args.bankroll > 0 /\ args.daily_pnl >= 0 /\ config.max_daily_loss_pct > 0)
              => last.ret.ok

\* a negative bankroll on a profitable day
C9_Witness ==
    /\ last.op = "check_daily_loss_percentage"
    /\ args.bankroll < 0
    /\ args.daily_pnl > 0
    /\ last.ret.msg.kind = "Invalid bankroll"

(***************************************************************************)
(* C10: the message list of full_risk_check is never empty; a denial       *)
(* carries a blocking message; "All risk checks passed" is present, once,  *)
(* if and only if the trade is allowed and no other message was produced.  *)
(***************************************************************************)
C10_MessagesNeverEmpty ==
    IsFullRiskCheck =>
        LET messages == last.ret.messages
            passed == SelectSeq(messages, LAMBDA m : m.kind = "All risk checks passed")
            others == SelectSeq(messages, LAMBDA m : m.kind # "All risk checks passed")
        IN /\ messages # <<>>
           /\ ~last.ret.allowed => Blocking(messages) # <<>>
           /\ Len(passed) <= 1
           /\ passed # <<>> <=> (last.ret.allowed /\ others = <<>>)

\* an allowed trade whose only message is the confirmation
C10_Witness ==
    /\ IsFullRiskCheck
    /\ last.ret.allowed
    /\ Len(last.ret.messages) = 1
    /\ last.ret.messages[1].kind = "All risk checks passed"

(***************************************************************************)
(* Paper trades and the exposure the RiskManager tracks for them           *)
(***************************************************************************)
OpenIn(m) == {i \in DOMAIN trades : IsOpen(trades[i]) /\ trades[i].market_slug = m}

MarketExposureOf(summary, m) ==
    IF m \in DOMAIN summary.market_exposure THEN summary.market_exposure[m] ELSE 0

(***************************************************************************)
(* C3: the market exposure the gate uses is the sum of the amounts of the  *)
(* open positions of the market: while every bought position is still     *)
(* open (and its amount positive), get_exposure_summary reports that sum   *)
(* for each market and check_market_exposure allows exactly up to          *)
(* max_market_exposure minus that sum.                                     *)
(***************************************************************************)
C3_MarketExposureIsSumOfOpenPositions ==
    (\A i \in DOMAIN trades : IsOpen(trades[i]) /\ trades[i].amount > 0) =>
        \A m \in Slugs :
            LET sum == SumAmount(OpenIn(m))
            IN /\ MarketExposureOf(get_exposure_summary(positions), m) = sum
               /\ check_market_exposure(config, positions, m,
                                        config.max_market_exposure - sum).ok
               /\ ~check_market_exposure(config, positions, m,
                                         config.max_market_exposure - sum + 1).ok

(***************************************************************************)
(* C4: after any buy, close and resolve operations a CLOSED or RESOLVED    *)
(* trade contributes nothing to the tracked market, narrative and total    *)
(* exposure, and every OPEN trade still contributes: its market is still   *)
(* tracked.  Stated for ledgers whose amounts are all positive.            *)
(***************************************************************************)
C4_OnlyOpenTradesContribute ==
    (\A i \in DOMAIN trades : trades[i].amount > 0) =>
        LET summary == get_exposure_summary(positions)
        IN /\ \A m \in Slugs : OpenIn(m) = {} => m \notin DOMAIN summary.market_exposure
           /\ open_trades = {} =>
                 (summary.total_exposure = 0 /\ DOMAIN summary.narrative_exposure = {})
           /\ \A i \in open_trades :
                 trades[i].market_slug \in DOMAIN summary.market_exposure

(***************************************************************************)
(* C7: in get_exposure_summary a position with several narratives adds its *)
(* full amount to each of their buckets, total_exposure counts every       *)
(* tracked amount once, position_count is the number of tracked positions, *)
(* and no narrative bucket exceeds total_exposure.                         *)
(***************************************************************************)
C7_ExposureSummaryBuckets ==
    last.op = "get_exposure_summary" =>
        /\ last.ret.total_exposure = TotalTracked
        /\ last.ret.position_count = Cardinality(DOMAIN positions)
        /\ \A n \in Narratives :
              IF \E s \in DOMAIN positions : n \in NarrativeSetOf(positions[s])
              THEN /\ n \in DOMAIN last.ret.narrative_exposure
                   /\ last.ret.narrative_exposure[n] = NarrativeTotal(n)
              ELSE n \notin DOMAIN last.ret.narrative_exposure
        /\ \A n \in DOMAIN last.ret.narrative_exposure :
              last.ret.narrative_exposure[n] <= last.ret.total_exposure

(***************************************************************************)
(* C11: the messages of full_risk_check hold the asymmetric-risk warning   *)
(* if and only if entry_price > asymmetric_risk_threshold (85: no warning  *)
(* at exactly 85), whether the hard checks admit or deny; the warning is   *)
(* not blocking, appears once and carries the upside                       *)
(* (100 - entry_price) / entry_price * 100.                                *)
(***************************************************************************)
Warnings(messages) == SelectSeq(messages, LAMBDA m : m.kind = "ASYMMETRIC RISK WARNING")

C11_WarningIffAboveThreshold ==
    IsFullRiskCheck =>
        LET W == Warnings(last.ret.messages)
        IN IF args.entry_price > 85
           THEN /\ Len(W) = 1
                /\ ~W[1].blocking
                /\ W[1].num * args.entry_price = (100 - args.entry_price) * 100 * W[1].den
           ELSE W = <<>>

\* a denied proposal entered at 86 carries the warning after the blocking message
C11_Witness ==
    /\ IsFullRiskCheck
    /\ args.entry_price = 86
    /\ ~last.ret.allowed
    /\ Len(last.ret.messages) >= 2
    /\ Warnings(last.ret.messages) # <<>>

(***************************************************************************)
(* The exit tracker seen from its files: what check_exits fetched for a    *)
(* position and what it returned for it                                    *)
(***************************************************************************)
IsCheckExits == last.op = "check_exits"

IndexOf(id) == CHOOSE i \in DOMAIN trades : trades[i].id = id

Seen(id) == [k \in DOMAIN observed[id] |-> observed[id][k].price]

MaxSeen(id) == CHOOSE m \in Range(Seen(id)) : \A x \in Range(Seen(id)) : x <= m

EventsFor(events, id) == SelectSeq(events, LAMBDA e : e.position_id = id)

TypeAndTrigger(events) == {<<events[k].type, events[k].trigger_price>> : k \in DOMAIN events}

(***************************************************************************)
(* C12: for a target with a trailing stop, the stored peak_price is the    *)
(* maximum of all prices check_exits has observed for the position since   *)
(* the target was set (unset while none was observed); as the observed     *)
(* prices only accumulate, such a peak never decreases.                    *)
(***************************************************************************)
C12_PeakIsMaxObserved ==
    \A id \in DOMAIN targets :
        targets[id].trailing_stop # None =>
            targets[id].peak_price = IF observed[id] = <<>> THEN None ELSE MaxSeen(id)

(***************************************************************************)
(* C13: Scenario C.  A target with trailing_stop = 5 only, peak unset, fed *)
(* 70, 90, 85, 84 in successive passes: the peak is 70, 90, 90, 90; no     *)
(* trigger after 70, 90 and 85; after 84 exactly one event, a              *)
(* trailing_stop with trigger_price 85.                                    *)
(***************************************************************************)
ScenarioC == <<70, 90, 85, 84>>

ScenarioCPeaks == <<70, 90, 90, 90>>

C13_ScenarioC ==
    \A id \in DOMAIN targets :
        LET T == targets[id]
            n == Len(observed[id])
        IN (/\ T.trailing_stop = 5 /\ T.take_profit = None /\ T.stop_loss = None
            /\ n \in 1..4
            /\ Seen(id) = SubSeq(ScenarioC, 1, n))
           => /\ T.peak_price = ScenarioCPeaks[n]
              /\ \A k \in 1..n :
                    observed[id][k].fired = IF k = 4 THEN {"trailing_stop"} ELSE {}
              /\ (n = 4 /\ IsCheckExits /\ last.prices[IndexOf(id)] = 84) =>
                    LET E == EventsFor(last.ret, id)
                    IN Len(E) = 1 /\ E[1].type = "trailing_stop" /\ E[1].trigger_price = 85

(***************************************************************************)
(* C14: in a check_exits pass, for a checked position whose target has a   *)
(* trailing stop, the peak is first raised to the current price when it is *)
(* unset or lower, and a trailing_stop event is then returned if and only  *)
(* if current <= peak - trailing_stop, with that level as trigger_price;   *)
(* the first observation never triggers when trailing_stop > 0.            *)
(***************************************************************************)
C14_TrailingStopTrigger ==
    [][last'.op = "check_exits" =>
          \A i \in open_trades :
              LET id == trades[i].id
                  p == last'.prices[i]
              IN (p # None /\ id \in DOMAIN targets /\ targets[id].trailing_stop # None) =>
                    LET before == targets[id].peak_price
                        ts == targets[id].trailing_stop
                        peak == IF before = None \/ p > before THEN p ELSE before
                        E == {k \in DOMAIN last'.ret :
                                 /\ last'.ret[k].position_id = id
                                 /\ last'.ret[k].type = "trailing_stop"}
                    IN /\ targets'[id].peak_price = peak
                       /\ IF p <= peak - ts
                          THEN /\ Cardinality(E) = 1
                               /\ \A k \in E : last'.ret[k].trigger_price = peak - ts
                          ELSE E = {}
                       /\ (before = None /\ ts > 0) => E = {}]_vars

(***************************************************************************)
(* C15: in one check_exits pass the returned list holds, for every checked *)
(* position, exactly one event per exit condition that fires: take_profit  *)
(* iff set and current >= take_profit (trigger_price take_profit),         *)
(* stop_loss iff set and current <= stop_loss (trigger_price stop_loss),   *)
(* trailing_stop iff set and current <= peak - trailing_stop; none         *)
(* suppresses another.                                                     *)
(***************************************************************************)
C15_EveryFiredConditionReported ==
    IsCheckExits =>
        \A i \in open_trades :
            LET id == trades[i].id
                p == last.prices[i]
            IN (p # None /\ id \in DOMAIN targets) =>
                  LET T == targets[id]
                      E == EventsFor(last.ret, id)
                      fired ==
                          (IF T.trailing_stop # None /\ p <= T.peak_price - T.trailing_stop
                           THEN {<<"trailing_stop", T.peak_price - T.trailing_stop>>} ELSE {})
                          \cup (IF T.take_profit # None /\ p >= T.take_profit
                                THEN {<<"take_profit", T.take_profit>>} ELSE {})
                          \cup (IF T.stop_loss # None /\ p <= T.stop_loss
                                THEN {<<"stop_loss", T.stop_loss>>} ELSE {})
                  IN TypeAndTrigger(E) = fired /\ Len(E) = Cardinality(fired)

(***************************************************************************)
(* C16: once a check_exits pass has reported a trigger for a position, no  *)
(* later pass over the same open position and unchanged target reports no  *)
(* trigger for it.                                                         *)
(***************************************************************************)
C16_TriggeredIsTerminal ==
    \A id \in DOMAIN observed :
        \A j, k \in DOMAIN observed[id] :
            (j < k /\ observed[id][j].fired # {}) => observed[id][k].fired # {}

(***************************************************************************)
(* C17: in a check_exits pass where the price of an open position cannot   *)
(* be fetched, nothing is raised, that position gets no event and its      *)
(* target is unchanged, and every other open position whose price was      *)
(* fetched is evaluated and its peak saved.                                *)
(***************************************************************************)
C17_PriceFetchFailureSkips ==
    [][(/\ last'.op = "check_exits"
        /\ \E i \in open_trades : last'.prices[i] = None)
       => /\ last'.raised = NoName
          /\ \A i \in open_trades :
                LET id == trades[i].id
                    p == last'.prices[i]
                IN id \in DOMAIN targets =>
                      IF p = None
                      THEN /\ targets'[id] = targets[id]
                           /\ \A k \in DOMAIN last'.ret : last'.ret[k].position_id # id
                      ELSE LET before == targets[id].peak_price
                           IN targets[id].trailing_stop # None =>
                                 targets'[id].peak_price =
                                     IF before = None \/ p > before THEN p ELSE before]_vars

(***************************************************************************)
(* C18: every event check_exits returns carries                            *)
(* pnl = (current - entry_price) * shares / 100 for a Yes position and     *)
(* pnl = (entry_price - current) * shares / 100 for a No position, current *)
(* being the price fetched in that pass.                                   *)
(***************************************************************************)
C18_EventPnlBySide ==
    IsCheckExits =>
        \A k \in DOMAIN last.ret :
            LET e == last.ret[k]
                t == trades[IndexOf(e.position_id)]
            IN /\ e.current_price = last.prices[IndexOf(e.position_id)]
               /\ e.pnl * 100 =
                     IF t.outcome = "Yes"
                     THEN (e.current_price - t.entry_price) * t.shares
                     ELSE (t.entry_price - e.current_price) * t.shares

\* a No position of 250 shares entered at 40 triggers at 60 with pnl -50
C18_Witness ==
    /\ IsCheckExits
    /\ \E k \in DOMAIN last.ret :
          /\ trades[IndexOf(last.ret[k].position_id)].outcome = "No"
          /\ last.ret[k].current_price = 60
          /\ last.ret[k].pnl = -50
    /\ \E k \in DOMAIN last.ret :
          trades[IndexOf(last.ret[k].position_id)].outcome = "Yes"

(***************************************************************************)
(* C19 (as stated): the pnl close() records follows the side convention:   *)
(* 250 shares entered at 40 and exited at 60 record +50 for a Yes position *)
(* and (40 - 60) * 250 / 100 = -50 for a No position.                      *)
(***************************************************************************)
IsClosed == last.op = "close" /\ "error" \notin DOMAIN last.ret

C19_CloseFollowsSideConvention ==
    (IsClosed /\ last.ret.entry_price = 40 /\ last.ret.exit_price = 60
              /\ last.ret.shares = 250)
    => last.ret.pnl = IF last.ret.outcome = "Yes" THEN 50 ELSE -50

(***************************************************************************)
(* C19 (amended): the pnl close() records is                               *)
(* (exit_price - entry_price) * shares / 100 for every outcome, both       *)
(* prices being prices of the outcome held: 250 shares entered at 40 and   *)
(* exited at 60 record +50 for a Yes position and +50 for a No position.   *)
(***************************************************************************)
C19_ClosePnlIsPriceChange ==
    IsClosed =>
        /\ last.ret.pnl * 100 = (last.ret.exit_price - last.ret.entry_price) * last.ret.shares
        /\ (last.ret.entry_price = 40 /\ last.ret.exit_price = 60 /\ last.ret.shares = 250)
              => last.ret.pnl = 50

C19_Witness ==
    /\ IsClosed
    /\ last.ret.outcome = "No"
    /\ last.ret.entry_price = 40 /\ last.ret.exit_price = 60 /\ last.ret.shares = 250
    /\ last.ret.pnl = 50

(***************************************************************************)
(* C20: calculate_kelly_size never raises and never returns a negative     *)
(* value, for any win_prob, odds (also <= 1) and bankroll; it returns 0    *)
(* when win_prob is outside (0, 1) and when win_prob <= 0.5 at odds 2.0,   *)
(* and bankroll * f * kelly_fraction with f = (b*p - (1-p)) / b,           *)
(* b = odds - 1, whenever f > 0.                                           *)
(***************************************************************************)
IsKelly == last.op = "calculate_kelly_size"

C20_KellyNeverNegativeNeverRaises ==
    IsKelly =>
        LET p == args.win_prob
            b == args.odds - 100
            \* f > 0, for b # 0: numerator and denominator have the same sign
            f_positive == (b * p - 100 * (100 - p)) * b > 0
        IN /\ last.ret.raised = NoName
           /\ last.ret.num >= 0
           /\ (p <= 0 \/ p >= 100) => last.ret.num = 0
           /\ (p <= 50 /\ args.odds = 200) => last.ret.num = 0
           /\ (p > 0 /\ p < 100 /\ b # 0 /\ f_positive) =>
                 \* ret = bankroll * f * 0.25, f = (b*p - 100*(100-p)) / (100*b)
                 last.ret.num * 100 * b * 4 =
                     args.bankroll * (b * p - 100 * (100 - p)) * last.ret.den

(***************************************************************************)
(* Claims C21 to C30                                                       *)
(***************************************************************************)
\* C21: invalid negative inputs yield the no-op result: full_risk_check
\* denies a proposal whose amount is negative and one whose bankroll is
\* negative, and calculate_kelly_size returns 0, without raising, for a
\* negative win_prob or a negative bankroll.
C21_NegativeInputsAreNoOps ==
    /\ (IsFullRiskCheck /\ (args.amount < 0 \/ args.bankroll < 0)) => ~last.ret.allowed
    /\ (IsKelly /\ (args.win_prob < 0 \/ args.bankroll < 0)) =>
          (last.ret.raised = NoName /\ last.ret.num = 0)

\* C22: position ids are unique and monotonically assigned: no two ledger
\* records share an id, every id buy() issues is greater than every id issued
\* before, and the id of a ledger record was issued to that trade and to no
\* other (after any buy, close, resolve and cleanup_test_trades).
C22_IdsUniqueAndMonotone ==
    /\ \A i, j \in DOMAIN trades : i # j => trades[i].id # trades[j].id
    /\ \A k, l \in DOMAIN issued : k < l => issued[k] < issued[l]
    /\ \A i \in DOMAIN trades : \A k \in DOMAIN issued :
          trades[i].id = issued[k] => k = trades[i].timestamp

\* C23: a trade's status only moves from OPEN to CLOSED or from OPEN to
\* RESOLVED: no step changes the status, exit_price or pnl of a trade that is
\* CLOSED or RESOLVED, a close or resolve aimed at such a trade returns an
\* error, and amount, entry_price and shares never change after creation.
C23_TerminalTradesAreFrozen ==
    [][\A i \in DOMAIN trades :
          /\ i \in DOMAIN trades'
          /\ trades'[i].amount = trades[i].amount
          /\ trades'[i].entry_price = trades[i].entry_price
          /\ trades'[i].shares = trades[i].shares
          /\ trades'[i].status # trades[i].status =>
                (IsOpen(trades[i]) /\ IsDone(trades'[i]))
          /\ IsDone(trades[i]) =>
                /\ trades'[i].status = trades[i].status
                /\ trades'[i].exit_price = trades[i].exit_price
                /\ trades'[i].pnl = trades[i].pnl
                /\ (last'.op \in {"close", "resolve"} /\ last'.trade_id = trades[i].id) =>
                      "error" \in DOMAIN last'.ret]_vars

\* the queries of the RiskManager
QueryOps ==
    {"get_exposure_summary", "get_positions", "check_trade_limits", "check_market_exposure",
     "check_narrative_exposure", "check_asymmetric_risk", "check_daily_loss_percentage",
     "full_risk_check"}

\* C24: the exposure and gate queries have no hidden mutation: every query
\* step, admitting or denying, leaves the tracked positions as they were, a
\* get_exposure_summary right after another returns the same result, and a
\* change made to the dict get_positions returned leaves the tracked
\* positions as they were.
C24_QueriesDoNotMutate ==
    [][/\ last'.op \in QueryOps => positions' = positions
       /\ (last.op = "get_exposure_summary" /\ last'.op = "get_exposure_summary") =>
             last'.ret = last.ret
       /\ last'.op = "get_exposure_summary" => last'.ret = get_exposure_summary(positions)
       /\ last'.op = "mutate returned dict" =>
             (positions' = positions /\ last'.ret.items # positions')]_vars

\* the caller has removed a key from, or put one into, the dict it got from
\* get_positions while positions are tracked
C24_Witness ==
    /\ last.op = "mutate returned dict"
    /\ positions # EmptyDict
    /\ DOMAIN last.ret.items # DOMAIN positions

IsSetExitTarget == last.op = "set_exit_target"

\* C25: there is at most one exit target per position id: set_exit_target
\* replaces the whole record of that id (a field not passed is unset, not
\* inherited), leaves its peak_price unset, and leaves the targets of all
\* other position ids as they were.
C25_SetReplacesWholeTarget ==
    [][last'.op = "set_exit_target" =>
          /\ DOMAIN targets' = DOMAIN targets \cup {last'.position_id}
          /\ targets'[last'.position_id] =
                [take_profit |-> last'.take_profit, stop_loss |-> last'.stop_loss,
                 trailing_stop |-> last'.trailing_stop, peak_price |-> None]
          /\ \A id \in DOMAIN targets \ {last'.position_id} : targets'[id] = targets[id]]_vars

\* a target with a take profit, a trailing stop and a recorded peak has just
\* been replaced by one with a stop loss only, while the other position keeps
\* a target with a peak
C25_Witness ==
    /\ IsSetExitTarget
    /\ last.replaced # Nothing
    /\ last.replaced.peak_price # None
    /\ last.replaced.take_profit # None
    /\ last.take_profit = None
    /\ \E id \in DOMAIN targets \ {last.position_id} : targets[id].peak_price # None

\* C30: a target written by set_exit_target while a check_exits pass is in
\* progress is not lost, and neither are the peaks the pass writes while a
\* set_exit_target call is in progress: when the pass saves, every stored
\* target keeps its take_profit, stop_loss and trailing_stop, and when the
\* call saves, it stores the new target and leaves every other id's target,
\* peak included, as it was stored.
C30_ConcurrentTargetNotLost ==
    [][/\ last'.op = "check_exits" =>
             \A id \in DOMAIN targets :
                /\ id \in DOMAIN targets'
                /\ targets'[id].take_profit = targets[id].take_profit
                /\ targets'[id].stop_loss = targets[id].stop_loss
                /\ targets'[id].trailing_stop = targets[id].trailing_stop
       /\ last'.op = "set_exit_target" =>
             /\ last'.position_id \in DOMAIN targets'
             /\ targets'[last'.position_id] =
                   [take_profit |-> last'.take_profit, stop_loss |-> last'.stop_loss,
                    trailing_stop |-> last'.trailing_stop, peak_price |-> None]
             /\ \A id \in DOMAIN targets \ {last'.position_id} :
                   (id \in DOMAIN targets' /\ targets'[id] = targets[id])]_vars

OrderOps == {"place_market_order", "place_limit_order"}

\* the history and the exchange are as they were before the step
OrderLeftNoTrace == trades' = trades /\ exchange' = exchange

RiskPasses(amount) == check_risk_limits(config, trades, amount, today).allowed

TradingEnabled == config.enabled /\ args.private_key # ""

\* C26 as stated: an order is sent or recorded only when the risk limits
\* pass, trading is enabled and dry_run is False; in dry-run mode the call
\* returns success with dry_run = True, with trading disabled it returns an
\* error, and in both cases the history and the exchange are untouched.
C26_DryRunAlwaysSucceeds ==
    [][last'.op \in OrderOps =>
          /\ ~OrderLeftNoTrace => (RiskPasses(last'.amount) /\ TradingEnabled /\ ~args.dry_run)
          /\ args.dry_run =>
                /\ last'.ret.success
                /\ Get(last'.ret, "dry_run", FALSE)
                /\ OrderLeftNoTrace
          /\ ~TradingEnabled => (~last'.ret.success /\ OrderLeftNoTrace)]_vars

\* C26, amended: the dry-run success is returned only when the risk limits
\* pass and trading is enabled; otherwise a dry-run trader returns the same
\* error as a live one.  A record is appended only together with a sent order.
C26_OrdersOnlyWhenLive ==
    [][last'.op \in OrderOps =>
          /\ ~OrderLeftNoTrace => (RiskPasses(last'.amount) /\ TradingEnabled /\ ~args.dry_run)
          /\ trades' # trades =>
                (exchange' # exchange /\ Len(trades') = Len(trades) + 1 /\ last'.ret.success)
          /\ ~RiskPasses(last'.amount) => (~last'.ret.success /\ OrderLeftNoTrace)
          /\ ~TradingEnabled => (~last'.ret.success /\ OrderLeftNoTrace)
          /\ (args.dry_run /\ RiskPasses(last'.amount) /\ TradingEnabled) =>
                /\ last'.ret.success
                /\ Get(last'.ret, "dry_run", FALSE)
                /\ OrderLeftNoTrace]_vars

\* a dry-run trader with trading enabled has returned the dry-run success,
\* the exchange and the history being empty
C26_Witness ==
    /\ last.op \in OrderOps
    /\ args.dry_run
    /\ config.enabled /\ args.private_key # ""
    /\ "dry_run" \in DOMAIN last.ret
    /\ trades = <<>> /\ exchange = <<>>


\* the open trades whose title belongs to narrative n
OpenInNarrative(n) ==
    {i \in DOMAIN trades : IsOpen(trades[i]) /\ n \in Range(Detected[trades[i].question])}

\* C27: with serialized callers, after any sequence of buy, close and resolve
\* the summed amount of the OPEN trades of any single market never exceeds
\* max_market_exposure and that of any single narrative never exceeds
\* max_narrative_exposure.
C27_OpenExposureWithinLimits ==
    /\ \A i \in DOMAIN trades :
          SumAmount(OpenIn(trades[i].market_slug)) <= config.max_market_exposure
    /\ \A n \in Narratives : SumAmount(OpenInNarrative(n)) <= config.max_narrative_exposure

IsBuyStep == last'.op = "buy"

\* at least one of take_profit, stop_loss, trailing_stop was passed to the buy
TargetGiven == last'.take_profit # None \/ last'.stop_loss # None \/ last'.trailing_stop # None

\* the same by Python truthiness: None and 0 count as not passed
TargetTruthy ==
    Truthy(last'.take_profit) \/ Truthy(last'.stop_loss) \/ Truthy(last'.trailing_stop)

\* what a buy step does apart from the exit target: nothing when it returns
\* an error, otherwise one OPEN record appended and its position tracked
BuyLedgerEffect ==
    IF "error" \in DOMAIN last'.ret
    THEN trades' = trades /\ positions' = positions /\ targets' = targets
    ELSE /\ trades' = Append(trades, last'.ret)
         /\ last'.ret.status = "OPEN"
         /\ DOMAIN positions' = DOMAIN positions \cup {last'.ret.market_slug}
         /\ positions'[last'.ret.market_slug].amount = last'.ret.amount
         /\ \A s \in DOMAIN positions \ {last'.ret.market_slug} : positions'[s] = positions[s]

\* the record set_exit_target stores for the arguments of the buy
BuyTarget ==
    [take_profit |-> last'.take_profit, stop_loss |-> last'.stop_loss,
     trailing_stop |-> last'.trailing_stop, peak_price |-> None]

\* C28: a buy that is denied by the risk gate or fails on market-not-found or
\* unknown outcome changes nothing; an admitted buy appends exactly one OPEN
\* record, tracks the position in the RiskManager, and registers an exit
\* target for the new id if and only if at least one of take_profit,
\* stop_loss, trailing_stop was given.
C28_BuyIsAtomic ==
    [][IsBuyStep =>
          /\ BuyLedgerEffect
          /\ "error" \notin DOMAIN last'.ret =>
                IF TargetGiven
                THEN /\ last'.ret.id \in DOMAIN targets'
                     /\ targets'[last'.ret.id] = BuyTarget
                     /\ \A id \in DOMAIN targets \ {last'.ret.id} : targets'[id] = targets[id]
                ELSE targets' = targets]_vars

\* the trades that became CLOSED or RESOLVED on the current day
realized_today ==
    {i \in DOMAIN trades :
        /\ IsDone(trades[i])
        /\ (Get(trades[i], "closed_at", None) = today
            \/ Get(trades[i], "resolved_at", None) = today)}

IsAdmittedBuy == last.op = "buy" /\ "error" \notin DOMAIN last.ret

\* C29: the daily P&L buy() passes to the risk gate is the sum of the pnl of
\* every trade closed or resolved today: no buy is admitted on a day whose
\* closed and resolved trades have lost max_daily_loss or more, whether the
\* loss came from a close or from a resolve.
C29_ResolvedLossCountsToday ==
    IsAdmittedBuy => SumPnl(realized_today) > -config.max_daily_loss
====
